---- MODULE Spec2Model ----
(***************************************************************************)
(* A model of the SPDX document assembly engine of tools-python:           *)
(*   - the tag/value Parser (src/spdx/parser/tagvalue/parser/tagvalue.py), *)
(*     a grammar-driven state machine that builds one element at a time;   *)
(*   - the RelationshipParser (src/parser/json/relationship_parser.py),    *)
(*     which adds the implied relationships of a mapping-shaped document.  *)
(* Python dicts are functions whose DOMAIN is the set of keys present,     *)
(* Python lists are sequences, Python None is the string "None".           *)
(***************************************************************************)
EXTENDS Integers, Sequences, FiniteSets, TLC

VARIABLES
    \* ---- the tag/value Parser object (tagvalue.py, Parser.__init__)
    logger,            \* self.logger: the document-level Logger
    element_stack,     \* self.element_stack
    current_element,   \* self.current_element
    creation_info,     \* self.creation_info
    elements_build,    \* self.elements_build
    \* ---- the run of Parser.parse
    pc,                \* "parsing" while yacc consumes tags, "raised" when a
                       \* method raised, "done" when parse ran to its end
    result,            \* what parse returned or raised
    calls,             \* how many times parse was called on the object
    rest,              \* the tags of the input that are fixed in advance
    budget,            \* how many further tags may follow them
    consumed,          \* history: the tags consumed so far, in order
    appended,          \* history: every message ever appended to a logger
    \* ---- one call of RelationshipParser.parse_all_relationships
    rpc,               \* the phase the call is in
    input_doc_dict,    \* its argument
    rlogger,           \* self.logger of the RelationshipParser
    relationships_list,       \* the local relationships_list
    relationships,            \* what parse_relationships returned
    describes_relationships,  \* what parse_document_describes returned
    contains_relationships,   \* what parse_has_files returned
    rresult,           \* what the call returned or raised
    rcalls,            \* how many times parse_all_relationships was called
    \* ---- one call of RelationshipParser.check_if_relationship_exists
    xpc,               \* "call" before the call, "done" after it
    xrelationship,     \* its argument relationship
    xcreated_relationships,   \* its argument created_relationships
    exists             \* what the call returned or raised

pvars == <<logger, element_stack, current_element, creation_info,
           elements_build, pc, result, calls, rest, budget, consumed, appended>>
rvars == <<rpc, input_doc_dict, rlogger, relationships_list, relationships,
           describes_relationships, contains_relationships, rresult, rcalls>>
xvars == <<xpc, xrelationship, xcreated_relationships, exists>>
vars == <<pvars, rvars, xvars>>

(***************************************************************************)
(* Bounds of the model.                                                    *)
(***************************************************************************)
\* tags drawn freely from FreeTags after the fixed part of an input
MaxTags == 2
\* entries of the "relationships" list of a mapping-shaped document
MaxExplicit == 2
\* entries of a documentDescribes, hasFiles or fileDependencies list
MaxImplied == 2
\* entries of the "packages" list, or of the "files" list
MaxPackages == 2

(***************************************************************************)
(* Python values.                                                          *)
(***************************************************************************)
None == "None"

Has(d, k) == k \in DOMAIN d
Put(d, k, v) == [x \in (DOMAIN d) \cup {k} |-> IF x = k THEN v ELSE d[x]]
Pop(d, k) == [x \in (DOMAIN d) \ {k} |-> d[x]]
EmptyDict == <<>>
\* a variant of SetDefaultAppend that puts v in front of the list
SetDefaultPrepend(d, k, v) == Put(d, k, <<v>> \o (IF Has(d, k) THEN d[k] ELSE <<>>))
\* dict.setdefault(k, []).append(v)
SetDefaultAppend(d, k, v) == Put(d, k, Append(IF Has(d, k) THEN d[k] ELSE <<>>, v))
Range(s) == {s[i] : i \in DOMAIN s}
Last(s) == s[Len(s)]

\* Logger(): an empty message list
Logger == <<>>

\* the dataclass Relationship(spdx_element_id, relationship_type,
\* related_spdx_element_id, comment=None); equality compares all four fields
Relationship(a, t, b, c) ==
    [spdx_element_id |-> a, relationship_type |-> t,
     related_spdx_element_id |-> b, comment |-> c]

(***************************************************************************)
(* Messages.  A message is a record: its kind, what it is about, the line  *)
(* of the tag it reports (0 when the text holds no line) and, for a        *)
(* message that wraps the messages of a local logger, those messages.      *)
(***************************************************************************)
Msg(k, what, line) == [k |-> k, what |-> what, line |-> line, msgs |-> <<>>]
\* "Error while parsing <name>: [<messages of the local logger>]"
ErrorWhileParsing(name, msgs) ==
    [k |-> "parsing", what |-> name, line |-> 0, msgs |-> msgs]
\* "Error while constructing <name>: ..."
ErrorWhileConstructing(name) == Msg("constructing", name, 0)
\* "Error while parsing <tag>: Token did not match specified grammar rule. Line: n"
GrammarError(tag, line) == Msg("grammar", tag, line)
\* "Element <C> is not the current element in scope, probably the expected
\*  tag to start the element (<start tag>) is missing."
NotInScope(cls) == Msg("not_in_scope", cls, 0)

\* the messages a message list holds, those inside wrapping messages included
Atoms(msgs) ==
    UNION {IF msgs[i].k = "parsing" THEN Range(msgs[i].msgs) ELSE {msgs[i]}
           : i \in DOMAIN msgs}

(***************************************************************************)
(* External collaborators of the Parser (spdx.parser.parsing_functions,    *)
(* spdx.parser.actor_parser, the typed model classes).                     *)
(***************************************************************************)
\* the fields a typed construction needs
RequiredFields(cls) ==
    CASE cls = "File" -> {"name", "spdx_id"}
      [] cls = "Package" -> {"name", "spdx_id"}
      [] cls = "Snippet" -> {"spdx_id"}
      [] cls = "Annotation" -> {"annotator", "spdx_id"}
      [] cls = "Relationship" ->
            {"spdx_element_id", "relationship_type", "related_spdx_element_id"}
      [] cls = "ExtractedLicensingInfo" -> {"license_id"}
      [] cls = "CreationInfo" ->
            {"spdx_version", "spdx_id", "data_license", "name",
             "document_namespace", "creators", "created"}

\* the fields a typed construction accepts
AcceptedFields(cls) ==
    RequiredFields(cls) \cup
    CASE cls = "File" -> {"comment", "file_type", "license_info_in_file"}
      [] cls = "Package" -> {"version", "external_references"}
      [] cls = "Snippet" -> {"byte_range", "line_range"}
      [] cls = "Relationship" -> {"comment"}
      [] cls = "CreationInfo" -> {"document_comment"}
      [] OTHER -> {}

\* construct_or_raise_parsing_error(cls, args) raises SPDXParsingError
\* unless the construction succeeds
ConstructionFails(cls, args) ==
    ~(RequiredFields(cls) \subseteq DOMAIN args /\ DOMAIN args \subseteq AcceptedFields(cls))

\* the object construct_or_raise_parsing_error returns
Constructed(cls, args) ==
    IF cls = "Relationship"
    THEN Relationship(args["spdx_element_id"], args["relationship_type"],
                      args["related_spdx_element_id"],
                      IF Has(args, "comment") THEN args["comment"] ELSE None)
    ELSE args

\* raise_parsing_error_if_logger_has_messages(logger, name): the message
\* list of the SPDXParsingError it raises, <<>> when it raises nothing
raise_parsing_error_if_logger_has_messages(lg, name) ==
    IF lg = <<>> THEN <<>>
    ELSE IF name # None THEN <<ErrorWhileParsing(name, lg)>>
    ELSE lg

\* ActorParser.parse_actor(v) raises SPDXParsingError for a value that
\* names no person, organization or tool
InvalidActor == "Person:"
ActorFails(v) == v = InvalidActor

\* the member names of the enum RelationshipType that the model uses
RelationshipTypeNames ==
    {"DESCRIBES", "DESCRIBED_BY", "CONTAINS", "CONTAINED_BY", "DEPENDENCY_OF"}

(***************************************************************************)
(* The tag/value Parser.  Its methods are operators on the record s of the *)
(* object's fields; s.exc is the exception in flight, None when there is   *)
(* none, and s.appended is the history of appended messages.               *)
(***************************************************************************)
CLASS_MAPPING(cls) ==
    CASE cls = "File" -> "files"
      [] cls = "Annotation" -> "annotations"
      [] cls = "Relationship" -> "relationships"
      [] cls = "Snippet" -> "snippets"
      [] cls = "Package" -> "packages"
      [] cls = "ExtractedLicensingInfo" -> "extracted_licensing_info"

\* {"logger": Logger()}
NewElement == [x \in {"logger"} |-> Logger]

SPDXParsingError(msgs) == [kind |-> "SPDXParsingError", messages |-> msgs]
KeyError == [kind |-> "KeyError", messages |-> <<>>]
AttributeError == [kind |-> "AttributeError", messages |-> <<>>]
ValueError == [kind |-> "ValueError", messages |-> <<>>]
NoResult == [kind |-> None, messages |-> <<>>]
Document == [kind |-> "Document", messages |-> <<>>]
Raised(s) == s.exc.kind # None

\* a variant of LogDocument that appends to the local logger of the open
\* accumulator
LogDocumentToElement(s, m) ==
    [s EXCEPT !.current_element =
                  Put(@, "logger", Append(IF Has(@, "logger") THEN @["logger"] ELSE <<>>, m)),
              !.appended = @ \cup {m}]
\* self.logger.append(m)
LogDocument(s, m) ==
    [s EXCEPT !.logger = Append(@, m), !.appended = @ \cup {m}]
\* self.current_element["logger"].append(m)
LogElement(s, m) ==
    [s EXCEPT !.current_element = Put(@, "logger", Append(@["logger"], m)),
              !.appended = @ \cup {m}]
\* self.creation_info["logger"].append(m)
LogCreationInfo(s, m) ==
    [s EXCEPT !.creation_info = Put(@, "logger", Append(@["logger"], m)),
              !.appended = @ \cup {m}]

\* a variant of check_for_preceding_package_and_build_contains_relationship
\* that takes the first package of the collection
check_for_first_package_and_build_contains_relationship(s) ==
    IF ~Has(s.current_element, "spdx_id") THEN [s EXCEPT !.exc = KeyError]
    ELSE IF ~Has(s.elements_build, "packages") THEN s
    ELSE LET file_spdx_id == s.current_element["spdx_id"]
             package_spdx_id == s.elements_build["packages"][1]["spdx_id"]
             relationship == Relationship(package_spdx_id, "CONTAINS", file_spdx_id, None)
         IN  IF ~Has(s.elements_build, "relationships")
             THEN [s EXCEPT !.exc = KeyError]
             ELSE IF relationship \notin Range(s.elements_build["relationships"])
             THEN [s EXCEPT !.elements_build =
                                SetDefaultAppend(@, "relationships", relationship)]
             ELSE s

check_for_preceding_package_and_build_contains_relationship(s) ==
    IF ~Has(s.current_element, "spdx_id") THEN [s EXCEPT !.exc = KeyError]
    ELSE IF ~Has(s.elements_build, "packages") THEN s
    ELSE LET file_spdx_id == s.current_element["spdx_id"]
             package_spdx_id == Last(s.elements_build["packages"])["spdx_id"]
             relationship == Relationship(package_spdx_id, "CONTAINS", file_spdx_id, None)
         IN  IF ~Has(s.elements_build, "relationships")
             THEN [s EXCEPT !.exc = KeyError]
             ELSE IF relationship \notin Range(s.elements_build["relationships"])
             THEN [s EXCEPT !.elements_build =
                                SetDefaultAppend(@, "relationships", relationship)]
             ELSE s

\* a variant of construct_current_element that builds the CONTAINS
\* relationship for a File it discards as well
construct_current_element_with_edge_for_discarded_file(s) ==
    IF ~Has(s.current_element, "class")
    THEN [s EXCEPT !.current_element = NewElement]
    ELSE LET class_name == s.current_element["class"]
             local == s.current_element["logger"]
             args == Pop(Pop(s.current_element, "class"), "logger")
             raised == raise_parsing_error_if_logger_has_messages(local, class_name)
             logged == IF raised # <<>>
                       THEN [s EXCEPT !.logger = Append(@, raised[1]),
                                      !.current_element = args]
                       ELSE IF ConstructionFails(class_name, args)
                       THEN [LogDocument(s, ErrorWhileConstructing(class_name))
                               EXCEPT !.current_element = args]
                       ELSE [s EXCEPT
                               !.current_element = args,
                               !.elements_build =
                                   SetDefaultAppend(@, CLASS_MAPPING(class_name),
                                                    Constructed(class_name, args))]
             after == IF class_name = "File"
                      THEN check_for_preceding_package_and_build_contains_relationship(logged)
                      ELSE logged
         IN  IF Raised(after) THEN after
             ELSE [after EXCEPT !.current_element = NewElement]

\* a variant of construct_current_element that does not look at the local
\* logger of the accumulator
construct_current_element_without_local_logger(s) ==
    IF ~Has(s.current_element, "class")
    THEN [s EXCEPT !.current_element = NewElement]
    ELSE LET class_name == s.current_element["class"]
             args == Pop(Pop(s.current_element, "class"), "logger")
         IN  IF ConstructionFails(class_name, args)
             THEN [LogDocument(s, ErrorWhileConstructing(class_name))
                     EXCEPT !.current_element = NewElement]
             ELSE LET built == [s EXCEPT
                                  !.current_element = args,
                                  !.elements_build =
                                      SetDefaultAppend(@, CLASS_MAPPING(class_name),
                                                       Constructed(class_name, args))]
                      after == IF class_name = "File"
                               THEN check_for_preceding_package_and_build_contains_relationship(built)
                               ELSE built
                  IN  IF Raised(after) THEN after
                      ELSE [after EXCEPT !.current_element = NewElement]

construct_current_element(s) ==
    IF ~Has(s.current_element, "class")
    THEN [s EXCEPT !.current_element = NewElement]
    ELSE LET class_name == s.current_element["class"]
             local == s.current_element["logger"]
             args == Pop(Pop(s.current_element, "class"), "logger")
             raised == raise_parsing_error_if_logger_has_messages(local, class_name)
         IN  IF raised # <<>>
             THEN [s EXCEPT !.logger = Append(@, raised[1]),
                            !.current_element = NewElement]
             ELSE IF ConstructionFails(class_name, args)
             THEN [LogDocument(s, ErrorWhileConstructing(class_name))
                     EXCEPT !.current_element = NewElement]
             ELSE LET built == [s EXCEPT
                                  !.current_element = args,
                                  !.elements_build =
                                      SetDefaultAppend(@, CLASS_MAPPING(class_name),
                                                       Constructed(class_name, args))]
                      after == IF class_name = "File"
                               THEN check_for_preceding_package_and_build_contains_relationship(built)
                               ELSE built
                  IN  IF Raised(after) THEN after
                      ELSE [after EXCEPT !.current_element = NewElement]

check_that_current_element_matches_class_for_value(s, expected_class) ==
    IF ~Has(s.current_element, "class")
    THEN LogDocument(s, NotInScope(expected_class))
    ELSE IF expected_class # s.current_element["class"]
    THEN LogDocument(s, NotInScope(expected_class))
    ELSE s

initialize_new_current_element(s, class_name) ==
    LET pushed == IF Has(s.current_element, "class") /\ Has(s.current_element, "spdx_id")
                  THEN [s EXCEPT !.element_stack =
                           Append(@, [class |-> s.current_element["class"],
                                      spdx_id |-> s.current_element["spdx_id"]])]
                  ELSE s
         done == construct_current_element(pushed)
    IN  IF Raised(done) THEN done
        ELSE [done EXCEPT !.current_element = Put(@, "class", class_name)]

(***************************************************************************)
(* The input: a sequence of tags, one per line.  A tag is the grammar rule *)
(* that yacc reduces (the name of its nonterminal, "_error" appended for   *)
(* the rule with the error token) with its value p[2]; a Relationship tag  *)
(* carries the words of its value and its comment p[4].                    *)
(***************************************************************************)
T(tag, v) == [tag |-> tag, v |-> v, words |-> <<>>, comment |-> None]
R(words, comment) == [tag |-> "relationship", v |-> "", words |-> words, comment |-> comment]

DocId == "SPDXRef-DOCUMENT"
Header ==
    <<T("spdx_version", "SPDX-2.3"), T("data_lics", "CC0-1.0"), T("spdx_id", DocId),
      T("doc_name", "doc"), T("doc_namespace", "https://ns"),
      T("creator", "Tool: t"), T("created", "2023-01-01T00:00:00Z")>>
PackageTags(name, id) == <<T("package_name", name), T("spdx_id", id)>>
FileTags(name, id) == <<T("file_name", name), T("spdx_id", id)>>
ExplicitRelationship == R(<<DocId, "DESCRIBES", "SPDXRef-P">>, None)

\* the input of the implicit-containment example
ImplicitContainmentInput ==
    <<T("spdx_id", DocId)>> \o PackageTags("P", "SPDXRef-P")
        \o FileTags("f.c", "SPDXRef-f") \o <<T("file_type", "SOURCE")>>
\* package P1, files f1 and f2, package P2, file f3
LastPackageInput ==
    PackageTags("P1", "SPDXRef-P1") \o FileTags("f1", "SPDXRef-f1")
        \o FileTags("f2", "SPDXRef-f2") \o PackageTags("P2", "SPDXRef-P2")
        \o FileTags("f3", "SPDXRef-f3")

\* a File whose repeatable field FileType and whose singular field
\* FileComment are given several times, a value of a Package among them
FieldArityInput ==
    FileTags("f.c", "SPDXRef-f")
        \o <<T("file_type", "SOURCE"), T("file_comment", "first"),
             T("file_type", "TEXT"), T("package_version", "1.0"),
             T("file_comment", "second"), T("file_type", "SOURCE")>>

\* package P and its file f, given after a relationship between the two
ContainedFileInput == PackageTags("P", "SPDXRef-P") \o FileTags("f.c", "SPDXRef-f")

\* the Relationship tag that states the containment of ContainedFileInput
ContainsTag == R(<<"SPDXRef-P", "CONTAINS", "SPDXRef-f">>, None)

\* package P, then a snippet, an annotation, a relationship, an extracted
\* licensing info, a file g, a package with a malformed name and a package
\* without id, then the file f
InterveningElementsInput ==
    PackageTags("P", "SPDXRef-P")
        \o <<T("snip_spdx_id", "SPDXRef-s"),
             T("annotator", "Person: Jane"), T("annotation_spdx_id", "SPDXRef-P"),
             R(<<"SPDXRef-P", "DEPENDENCY_OF", "SPDXRef-s">>, None),
             T("extr_lic_id", "LicenseRef-1")>>
        \o FileTags("g.c", "SPDXRef-g")
        \o <<T("package_name_error", ""), T("package_name", "NoId")>>
        \o FileTags("f.c", "SPDXRef-f")

\* an ExternalRef tag: the words of its value and its comment p[4]
X(words, comment) == [tag |-> "pkg_ext_ref", v |-> "", words |-> words, comment |-> comment]
\* external references of a package with known categories
AcceptedExternalRefs ==
    <<X(<<"SECURITY", "cpe23Type", "cpe:1">>, None),
      X(<<"PACKAGE-MANAGER", "purl", "pkg:a">>, "c"),
      X(<<"OTHER", "x", "y">>, None),
      X(<<"SECURITY", "cpe23Type", "cpe:1">>, None),
      X(<<"PERSISTENT_ID", "swh", "swh:1">>, None)>>
\* external references with known and with unknown categories
ExternalRefsInput ==
    <<X(<<"BOGUS", "t", "l0">>, None),
      X(<<"SECURITY", "cpe23Type", "cpe:1">>, None),
      X(<<"security", "cpe23Type", "cpe:2">>, None),
      X(<<"NO-SUCH", "t", "l3">>, "c"),
      X(<<"PACKAGE-MANAGER", "purl", "pkg:a">>, "c"),
      X(<<"PERSISTENT-ID", "swh", "swh:1">>, None),
      X(<<"BOGUS", "t", "l0">>, None)>>

V(tag, chars) == [tag |-> tag, v |-> "", words |-> chars, comment |-> None]
\* values of SnippetByteRange and SnippetLineRange that match the pattern,
\* and values that do not
AcceptedRanges ==
    <<V("snip_byte_range", <<"1", ":", "2">>), V("snip_line_range", <<"3", ":", "4">>),
      V("snip_byte_range", <<"1", "0", ":", "2", "5">>),
      V("snip_line_range", <<" ", "7", ":", "7", " ">>),
      V("snip_line_range", <<"9", ":", "0", "3">>)>>
RejectedRanges ==
    <<V("snip_byte_range", <<"1", ":">>), V("snip_line_range", <<":", "4">>),
      V("snip_byte_range", <<"1", "-", "2">>), V("snip_line_range", <<"1", ":", "2", ":", "3">>),
      V("snip_byte_range", <<"a", ":", "2">>), V("snip_line_range", <<"1", " ", ":", "2">>),
      V("snip_byte_range", <<>>), V("snip_line_range", <<"1", "2">>)>>

FreeTags ==
    {T("unknown_tag", ""), T("spdx_id", "SPDXRef-a"),
     T("doc_comment", "c"), T("doc_comment_error", ""),
     T("creator", "Tool: t"), T("creator", InvalidActor),
     T("file_name", "g.c"), T("file_name_error", ""),
     T("package_name", "Q"), T("package_name_error", ""),
     T("snip_spdx_id", "SPDXRef-s"), T("snip_spdx_id_error", ""),
     T("annotator", "Person: Jane"), T("annotator", InvalidActor),
     T("annotator_error", ""),
     R(<<"SPDXRef-P", "CONTAINS", "SPDXRef-a">>, None),
     R(<<"SPDXRef-P", "CONTAINS", "NONE">>, "why"),
     R(<<"SPDXRef-P", "INCLUDES", "SPDXRef-a">>, None),
     R(<<"SPDXRef-P", "CONTAINS">>, None),
     T("relationship_error", ""),
     T("extr_lic_id", "LicenseRef-1"), T("extr_lic_id_error", ""),
     T("file_comment", "fc"), T("file_comment_error", ""),
     T("file_type", "SOURCE"),
     T("file_lics_info", "NONE"), T("file_lics_info", "MIT"),
     T("package_version", "1.0"), T("package_version_error", ""),
     T("annotation_spdx_id", "SPDXRef-a")}

\* the inputs: a fixed part, and the number of free tags that may follow it
Input(tags, n) == [tags |-> tags, budget |-> n]
Inputs ==
    {Input(<<>>, MaxTags),
     Input(Header, MaxTags),
     Input(Header \o PackageTags("P", "SPDXRef-P"), MaxTags),
     Input(Header \o FileTags("f.c", "SPDXRef-f"), MaxTags),
     Input(Header \o PackageTags("P", "SPDXRef-P") \o FileTags("f.c", "SPDXRef-f"), MaxTags),
     Input(Header \o <<ExplicitRelationship>> \o PackageTags("P", "SPDXRef-P")
              \o FileTags("f.c", "SPDXRef-f"), MaxTags),
     Input(ImplicitContainmentInput, 0),
     Input(Header \o PackageTags("P", "SPDXRef-P")
              \o FileTags("f.c", "SPDXRef-f") \o <<T("file_type", "SOURCE")>>, 0),
     Input(<<T("spdx_id", DocId)>> \o LastPackageInput, 0),
     Input(Header \o LastPackageInput, 0),
     Input(Header \o <<ExplicitRelationship>> \o LastPackageInput, 0),
     Input(Header \o PackageTags("Q", "SPDXRef-Q"), 0),
     Input(Header \o FieldArityInput, 0),
     Input(Header \o PackageTags("P", "SPDXRef-P") \o ExternalRefsInput, 0),
     Input(Header \o PackageTags("P", "SPDXRef-P") \o AcceptedExternalRefs, 0),
     Input(Header \o PackageTags("P", "SPDXRef-P")
              \o <<X(<<"SECURITY", "cpe23Type">>, None)>>, 0),
     Input(Header \o <<T("snip_spdx_id", "SPDXRef-s")>> \o RejectedRanges
              \o <<T("snip_spdx_id", "SPDXRef-t")>> \o AcceptedRanges \o RejectedRanges, 0),
     Input(Header \o <<T("snip_spdx_id", "SPDXRef-s")>> \o AcceptedRanges, 0),
     Input(Header \o <<ExplicitRelationship>> \o InterveningElementsInput, 0),
     Input(Header \o <<ContainsTag>> \o ContainedFileInput, 0),
     Input(Header \o <<R(<<"SPDXRef-P", "CONTAINS", "SPDXRef-f">>, "why")>>
              \o ContainedFileInput, 0),
     Input(Header \o <<R(<<"SPDXRef-f", "CONTAINED_BY", "SPDXRef-P">>, None)>>
              \o ContainedFileInput, 0),
     Input(Header \o PackageTags("P", "SPDXRef-P") \o FieldArityInput, 0),
     Input(Header \o ContainedFileInput \o <<ContainsTag>>, 0),
     Input(Header \o <<ExplicitRelationship>> \o ContainedFileInput \o <<ContainsTag>>, 0),
     Input(Header \o PackageTags("P", "SPDXRef-P") \o <<ContainsTag>>
              \o FileTags("f.c", "SPDXRef-f"), 0)}

(***************************************************************************)
(* The run of Parser.parse: yacc reduces one rule per tag and calls the    *)
(* rule's method; an exception a method raises ends the run.               *)
(***************************************************************************)
Self ==
    [logger |-> logger, element_stack |-> element_stack,
     current_element |-> current_element, creation_info |-> creation_info,
     elements_build |-> elements_build, appended |-> appended, exc |-> NoResult]

\* p.lineno(1) of the tag being reduced
Line == Len(consumed) + 1

\* the tags the lexer may deliver next
Offered ==
    IF pc # "parsing" THEN {}
    ELSE IF rest # <<>> THEN {Head(rest)}
    ELSE IF budget > 0 THEN FreeTags
    ELSE {}

\* the state after the method called for tag t left the object as s
Commit(t, s) ==
    /\ logger' = s.logger
    /\ element_stack' = s.element_stack
    /\ current_element' = s.current_element
    /\ creation_info' = s.creation_info
    /\ elements_build' = s.elements_build
    /\ appended' = s.appended
    /\ consumed' = Append(consumed, t)
    /\ rest' = IF rest # <<>> THEN Tail(rest) ELSE rest
    /\ budget' = IF rest # <<>> THEN budget ELSE budget - 1
    /\ pc' = IF Raised(s) THEN "raised" ELSE "parsing"
    /\ result' = IF Raised(s) THEN s.exc ELSE result
    /\ UNCHANGED calls
    /\ UNCHANGED <<rvars, xvars>>

\* a method that sets a field of creation_info
SetCreationInfo(s, key, v) == [s EXCEPT !.creation_info = Put(@, key, v)]
\* a variant of SetField that keeps the value a field already has
SetFieldIfUnset(s, key, v) ==
    IF Has(s.current_element, key) THEN s
    ELSE [s EXCEPT !.current_element = Put(@, key, v)]
\* self.current_element[key] = v
SetField(s, key, v) == [s EXCEPT !.current_element = Put(@, key, v)]
\* self.current_element.setdefault(key, []).append(v)
AppendField(s, key, v) == [s EXCEPT !.current_element = SetDefaultAppend(@, key, v)]

p_unknown_tag ==
    \E t \in Offered : t.tag = "unknown_tag"
        /\ Commit(t, LogDocument(Self, Msg("unknown_tag", "", Line)))

\* a variant of p_spdx_id that writes the id to the accumulator whenever one
\* is open
p_spdx_id_by_open_accumulator ==
    \E t \in Offered : t.tag = "spdx_id"
        /\ Commit(t, IF Has(current_element, "class")
                     THEN SetField(Self, "spdx_id", t.v)
                     ELSE SetCreationInfo(Self, "spdx_id", t.v))

p_spdx_id ==
    \E t \in Offered : t.tag = "spdx_id"
        /\ Commit(t, IF Has(creation_info, "spdx_id")
                     THEN SetField(Self, "spdx_id", t.v)
                     ELSE SetCreationInfo(Self, "spdx_id", t.v))

p_doc_comment ==
    \E t \in Offered : t.tag = "doc_comment"
        /\ Commit(t, SetCreationInfo(Self, "document_comment", t.v))

p_doc_comment_error ==
    \E t \in Offered : t.tag = "doc_comment_error"
        /\ Commit(t, LogCreationInfo(Self, GrammarError("DocumentComment", Line)))

p_doc_namespace ==
    \E t \in Offered : t.tag = "doc_namespace"
        /\ Commit(t, SetCreationInfo(Self, "document_namespace", t.v))

p_data_license ==
    \E t \in Offered : t.tag = "data_lics"
        /\ Commit(t, SetCreationInfo(Self, "data_license", t.v))

p_doc_name ==
    \E t \in Offered : t.tag = "doc_name"
        /\ Commit(t, SetCreationInfo(Self, "name", t.v))

p_spdx_version ==
    \E t \in Offered : t.tag = "spdx_version"
        /\ Commit(t, SetCreationInfo(Self, "spdx_version", t.v))

p_creator ==
    \E t \in Offered : t.tag = "creator"
        /\ Commit(t, IF ActorFails(t.v)
                     THEN [Self EXCEPT !.exc = SPDXParsingError(<<Msg("actor", t.v, 0)>>)]
                     ELSE [Self EXCEPT !.creation_info = SetDefaultAppend(@, "creators", t.v)])

p_created ==
    \E t \in Offered : t.tag = "created"
        /\ Commit(t, SetCreationInfo(Self, "created", t.v))

p_extracted_license_id ==
    \E t \in Offered : t.tag = "extr_lic_id"
        /\ Commit(t, LET s == initialize_new_current_element(Self, "ExtractedLicensingInfo")
                     IN  IF Raised(s) THEN s ELSE SetField(s, "license_id", t.v))

p_extracted_license_id_error ==
    \E t \in Offered : t.tag = "extr_lic_id_error"
        /\ Commit(t, LogElement(Self, GrammarError("LicenseID", Line)))

p_file_name ==
    \E t \in Offered : t.tag = "file_name"
        /\ Commit(t, LET s == initialize_new_current_element(Self, "File")
                     IN  IF Raised(s) THEN s ELSE SetField(s, "name", t.v))

p_file_name_error ==
    \E t \in Offered : t.tag = "file_name_error"
        /\ Commit(t, LET s == initialize_new_current_element(Self, "File")
                     IN  IF Raised(s) THEN s
                         ELSE LogElement(s, GrammarError("FileName", Line)))

p_file_comment ==
    \E t \in Offered : t.tag = "file_comment"
        /\ Commit(t, SetField(check_that_current_element_matches_class_for_value(Self, "File"),
                              "comment", t.v))

\* a variant of p_file_comment_error that checks the kind of the open element
p_file_comment_error_checking_class ==
    \E t \in Offered : t.tag = "file_comment_error"
        /\ Commit(t, LogElement(check_that_current_element_matches_class_for_value(Self, "File"),
                                GrammarError("FileComment", Line)))

p_file_comment_error ==
    \E t \in Offered : t.tag = "file_comment_error"
        /\ Commit(t, LogElement(Self, GrammarError("FileComment", Line)))

p_file_type ==
    \E t \in Offered : t.tag = "file_type"
        /\ Commit(t, AppendField(check_that_current_element_matches_class_for_value(Self, "File"),
                                 "file_type", t.v))

\* SpdxNone() and SpdxNoAssertion() as values of a field: one-element
\* tuples that no list of license expressions equals
Sentinel(v) == <<v>>
IsSentinelWord(v) == v \in {"NONE", "NOASSERTION"}

\* setdefault("license_info_in_file", []).append(p[2]) finds the sentinel
\* when one was stored, and a sentinel has no append: AttributeError
p_file_license_info ==
    \E t \in Offered : t.tag = "file_lics_info"
        /\ Commit(t, LET s == check_that_current_element_matches_class_for_value(Self, "File")
                         stored == IF Has(s.current_element, "license_info_in_file")
                                   THEN s.current_element["license_info_in_file"]
                                   ELSE <<>>
                     IN  IF IsSentinelWord(t.v)
                         THEN SetField(s, "license_info_in_file", Sentinel(t.v))
                         ELSE IF stored \in {Sentinel("NONE"), Sentinel("NOASSERTION")}
                         THEN [s EXCEPT !.exc = AttributeError]
                         ELSE AppendField(s, "license_info_in_file", t.v))

p_package_name ==
    \E t \in Offered : t.tag = "package_name"
        /\ Commit(t, LET s == initialize_new_current_element(Self, "Package")
                     IN  IF Raised(s) THEN s ELSE SetField(s, "name", t.v))

p_package_name_error ==
    \E t \in Offered : t.tag = "package_name_error"
        /\ Commit(t, LET s == initialize_new_current_element(Self, "Package")
                     IN  IF Raised(s) THEN s
                         ELSE LogElement(s, GrammarError("PackageName", Line)))

\* the member names of the enum ExternalPackageRefCategory
ExternalPackageRefCategoryNames == {"SECURITY", "PACKAGE_MANAGER", "PERSISTENT_ID", "OTHER"}

\* a variant of replace_hyphens that leaves the category as it is written
keep_hyphens(category) == category

\* category.replace("-", "_") for the categories of the model
replace_hyphens(category) ==
    CASE category = "PACKAGE-MANAGER" -> "PACKAGE_MANAGER"
      [] category = "PERSISTENT-ID" -> "PERSISTENT_ID"
      [] category = "NO-SUCH" -> "NO_SUCH"
      [] OTHER -> category

\* the dataclass ExternalPackageRef(category, reference_type, locator, comment)
ExternalPackageRef(category, reference_type, locator, comment) ==
    [category |-> category, reference_type |-> reference_type,
     locator |-> locator, comment |-> comment]

\* category, reference_type, locator = p[2].split(" ") raises ValueError
\* unless the value has three words
p_pkg_external_refs ==
    \E t \in Offered : t.tag = "pkg_ext_ref"
        /\ Commit(t, LET s == check_that_current_element_matches_class_for_value(Self, "Package")
                     IN  IF Len(t.words) # 3 THEN [s EXCEPT !.exc = ValueError]
                         ELSE IF replace_hyphens(t.words[1]) \notin ExternalPackageRefCategoryNames
                         THEN LogElement(s, Msg("category", t.words[1], 0))
                         ELSE AppendField(s, "external_references",
                                          ExternalPackageRef(replace_hyphens(t.words[1]),
                                                             t.words[2], t.words[3], t.comment)))

p_package_version ==
    \E t \in Offered : t.tag = "package_version"
        /\ Commit(t, SetField(check_that_current_element_matches_class_for_value(Self, "Package"),
                              "version", t.v))

p_package_version_error ==
    \E t \in Offered : t.tag = "package_version_error"
        /\ Commit(t, LogElement(Self, GrammarError("PackageVersion", Line)))

p_snippet_spdx_id ==
    \E t \in Offered : t.tag = "snip_spdx_id"
        /\ Commit(t, LET s == initialize_new_current_element(Self, "Snippet")
                     IN  IF Raised(s) THEN s ELSE SetField(s, "spdx_id", t.v))

p_snippet_spdx_id_error ==
    \E t \in Offered : t.tag = "snip_spdx_id_error"
        /\ Commit(t, LET s == initialize_new_current_element(Self, "Snippet")
                     IN  IF Raised(s) THEN s
                         ELSE LogElement(s, GrammarError("SnippetSPDXID", Line)))

\* the characters of a value, for the methods that match it against a
\* pattern: Digits is \d, a blank is what str.strip removes
Digits == {"0", "1", "2", "3", "4", "5", "6", "7", "8", "9"}
DigitValue(c) ==
    CASE c = "0" -> 0 [] c = "1" -> 1 [] c = "2" -> 2 [] c = "3" -> 3 [] c = "4" -> 4
      [] c = "5" -> 5 [] c = "6" -> 6 [] c = "7" -> 7 [] c = "8" -> 8 [] c = "9" -> 9

\* str.strip()
Strip(cs) ==
    LET idx == {i \in DOMAIN cs : cs[i] # " "}
    IN  IF idx = {} THEN <<>>
        ELSE SubSeq(cs, CHOOSE i \in idx : \A j \in idx : i <= j,
                        CHOOSE i \in idx : \A j \in idx : i >= j)

\* re.compile(r"^(\d+):(\d+)$").match(cs)
IsDigits(cs) == cs # <<>> /\ \A i \in DOMAIN cs : cs[i] \in Digits
range_re_match(cs) ==
    \E k \in DOMAIN cs :
        /\ cs[k] = ":"
        /\ IsDigits(SubSeq(cs, 1, k - 1))
        /\ IsDigits(SubSeq(cs, k + 1, Len(cs)))

\* the positions of ":" in cs, and p[2].split(":")[0], [1] and [-1] for a
\* value that holds a ":"
Colons(cs) == {i \in DOMAIN cs : cs[i] = ":"}
FirstPart(cs) == SubSeq(cs, 1, (CHOOSE i \in Colons(cs) : \A j \in Colons(cs) : i <= j) - 1)
SecondPart(cs) ==
    LET first == CHOOSE i \in Colons(cs) : \A j \in Colons(cs) : i <= j
        later == {i \in Colons(cs) : i > first}
    IN  SubSeq(cs, first + 1,
               IF later = {} THEN Len(cs)
               ELSE (CHOOSE i \in later : \A j \in later : i <= j) - 1)
\* a variant of LastPart that takes the part before the first ":"
LastPartFromStart(cs) == FirstPart(cs)
LastPart(cs) ==
    SubSeq(cs, (CHOOSE i \in Colons(cs) : \A j \in Colons(cs) : i >= j) + 1, Len(cs))

\* int(cs) for digits with blanks around them
RECURSIVE int(_)
int(cs) ==
    LET d == Strip(cs)
    IN  IF Len(d) = 1 THEN DigitValue(d[1])
        ELSE 10 * int(SubSeq(d, 1, Len(d) - 1)) + DigitValue(d[Len(d)])

p_snippet_byte_range ==
    \E t \in Offered : t.tag = "snip_byte_range"
        /\ Commit(t, LET s == check_that_current_element_matches_class_for_value(Self, "Snippet")
                     IN  IF ~range_re_match(Strip(t.words))
                         THEN LogElement(s, Msg("range", "SnippetByteRange", 0))
                         ELSE SetField(s, "byte_range",
                                       <<int(FirstPart(t.words)), int(LastPart(t.words))>>))

p_snippet_line_range ==
    \E t \in Offered : t.tag = "snip_line_range"
        /\ Commit(t, LET s == check_that_current_element_matches_class_for_value(Self, "Snippet")
                     IN  IF ~range_re_match(Strip(t.words))
                         THEN LogElement(s, Msg("range", "SnippetLineRange", 0))
                         ELSE SetField(s, "line_range",
                                       <<int(FirstPart(t.words)), int(SecondPart(t.words))>>))

p_annotator ==
    \E t \in Offered : t.tag = "annotator"
        /\ Commit(t, LET s == initialize_new_current_element(Self, "Annotation")
                     IN  IF Raised(s) THEN s
                         ELSE IF ActorFails(t.v) THEN LogElement(s, Msg("actor", t.v, 0))
                         ELSE SetField(s, "annotator", t.v))

p_annotator_error ==
    \E t \in Offered : t.tag = "annotator_error"
        /\ Commit(t, LET s == initialize_new_current_element(Self, "Annotation")
                     IN  IF Raised(s) THEN s
                         ELSE LogElement(s, GrammarError("Annotator", Line)))

p_annotation_spdx_id ==
    \E t \in Offered : t.tag = "annotation_spdx_id"
        /\ Commit(t, SetField(Self, "spdx_id", t.v))

\* "NONE" and "NOASSERTION" become SpdxNone() and SpdxNoAssertion()
RelatedId(word) ==
    CASE word = "NONE" -> "SpdxNone()"
      [] word = "NOASSERTION" -> "SpdxNoAssertion()"
      [] OTHER -> word

\* a variant of p_relationship that returns after logging an invalid
\* relationship type
p_relationship_return_on_invalid_type ==
    \E t \in Offered : t.tag = "relationship"
        /\ Commit(t,
             LET s == initialize_new_current_element(Self, "Relationship")
             IN  IF Raised(s) THEN s
                 ELSE IF Len(t.words) # 3
                 THEN LogElement(s, Msg("relationship_split", "", Line))
                 ELSE IF t.words[2] \notin RelationshipTypeNames
                 THEN LogElement(s, Msg("relationship_type", t.words[2], Line))
                 ELSE LET ids == SetField(SetField(SetField(s, "relationship_type", t.words[2]),
                                                   "related_spdx_element_id",
                                                   RelatedId(t.words[3])),
                                          "spdx_element_id", t.words[1])
                      IN  IF t.comment # None THEN SetField(ids, "comment", t.comment)
                          ELSE ids)

p_relationship ==
    \E t \in Offered : t.tag = "relationship"
        /\ Commit(t,
             LET s == initialize_new_current_element(Self, "Relationship")
             IN  IF Raised(s) THEN s
                 ELSE IF Len(t.words) # 3
                 THEN LogElement(s, Msg("relationship_split", "", Line))
                 ELSE LET typed == IF t.words[2] \in RelationshipTypeNames
                                   THEN SetField(s, "relationship_type", t.words[2])
                                   ELSE LogElement(s, Msg("relationship_type", t.words[2], Line))
                          ids == SetField(SetField(typed, "related_spdx_element_id",
                                                   RelatedId(t.words[3])),
                                          "spdx_element_id", t.words[1])
                      IN  IF t.comment # None THEN SetField(ids, "comment", t.comment)
                          ELSE ids)

p_relationship_error ==
    \E t \in Offered : t.tag = "relationship_error"
        /\ Commit(t, LET s == initialize_new_current_element(Self, "Relationship")
                     IN  IF Raised(s) THEN s
                         ELSE LogElement(s, GrammarError("Relationship", Line)))

\* a variant of parse that hands the document it built to
\* RelationshipParser.parse_all_relationships before it returns
parse_through_relationship_parser ==
    /\ pc = "parsing"
    /\ rest = <<>>
    /\ LET s1 == construct_current_element(Self)
           \* self.creation_info.pop("logger") raises KeyError without the key
           popped == Has(s1.creation_info, "logger")
           fromCreation == IF popped
                           THEN raise_parsing_error_if_logger_has_messages(
                                    s1.creation_info["logger"], "CreationInfo")
                           ELSE <<>>
           s2 == [s1 EXCEPT !.creation_info = Pop(@, "logger"),
                            !.logger = IF fromCreation # <<>>
                                       THEN Append(@, fromCreation[1]) ELSE @]
           raised == raise_parsing_error_if_logger_has_messages(s2.logger, None)
           s3 == IF Raised(s1) THEN s1
                 ELSE IF ~popped THEN [s1 EXCEPT !.exc = KeyError]
                 ELSE IF raised # <<>> THEN [s2 EXCEPT !.exc = SPDXParsingError(raised)]
                 ELSE IF ConstructionFails("CreationInfo", s2.creation_info)
                 THEN [s2 EXCEPT !.exc = SPDXParsingError(
                                            <<ErrorWhileConstructing("CreationInfo")>>)]
                 ELSE [s2 EXCEPT !.elements_build =
                                    Put(@, "creation_info", s2.creation_info),
                                 !.exc = Document]
       IN  /\ logger' = s3.logger
           /\ element_stack' = s3.element_stack
           /\ current_element' = s3.current_element
           /\ creation_info' = s3.creation_info
           /\ elements_build' = s3.elements_build
           /\ appended' = s3.appended
           /\ result' = s3.exc
    /\ pc' = "done"
    /\ UNCHANGED <<calls, rest, budget, consumed>>
    /\ rpc' = "start"
    /\ UNCHANGED <<input_doc_dict, rlogger, relationships_list, relationships,
                   describes_relationships, contains_relationships, rresult, rcalls>>
    /\ UNCHANGED xvars

\* the statements of parse after yacc has consumed the input
parse ==
    /\ pc = "parsing"
    /\ rest = <<>>
    /\ LET s1 == construct_current_element(Self)
           \* self.creation_info.pop("logger") raises KeyError without the key
           popped == Has(s1.creation_info, "logger")
           fromCreation == IF popped
                           THEN raise_parsing_error_if_logger_has_messages(
                                    s1.creation_info["logger"], "CreationInfo")
                           ELSE <<>>
           s2 == [s1 EXCEPT !.creation_info = Pop(@, "logger"),
                            !.logger = IF fromCreation # <<>>
                                       THEN Append(@, fromCreation[1]) ELSE @]
           raised == raise_parsing_error_if_logger_has_messages(s2.logger, None)
           s3 == IF Raised(s1) THEN s1
                 ELSE IF ~popped THEN [s1 EXCEPT !.exc = KeyError]
                 ELSE IF raised # <<>> THEN [s2 EXCEPT !.exc = SPDXParsingError(raised)]
                 ELSE IF ConstructionFails("CreationInfo", s2.creation_info)
                 THEN [s2 EXCEPT !.exc = SPDXParsingError(
                                            <<ErrorWhileConstructing("CreationInfo")>>)]
                 ELSE [s2 EXCEPT !.elements_build =
                                    Put(@, "creation_info", s2.creation_info),
                                 !.exc = Document]
       IN  /\ logger' = s3.logger
           /\ element_stack' = s3.element_stack
           /\ current_element' = s3.current_element
           /\ creation_info' = s3.creation_info
           /\ elements_build' = s3.elements_build
           /\ appended' = s3.appended
           /\ result' = s3.exc
    /\ pc' = "done"
    /\ UNCHANGED <<calls, rest, budget, consumed>>
    /\ UNCHANGED <<rvars, xvars>>

\* the inputs of a second call of parse on the same Parser object: a
\* complete header, alone and followed by a package
SecondInputs == {Header, Header \o PackageTags("Q", "SPDXRef-Q")}

\* parse is called again after a call that was given one of Inputs and no
\* further tag: __init__ does not run again, the object keeps its fields
parse_second_call ==
    /\ pc \in {"done", "raised"}
    /\ calls = 1
    /\ consumed \in {i.tags : i \in Inputs}
    /\ calls' = 2
    /\ pc' = "parsing"
    /\ result' = NoResult
    /\ rest' \in SecondInputs
    /\ budget' = 0
    /\ consumed' = <<>>
    /\ appended' = {}
    /\ UNCHANGED <<logger, element_stack, current_element, creation_info, elements_build>>
    /\ UNCHANGED <<rvars, xvars>>

\* no call of check_if_relationship_exists from outside the parser
XIdle ==
    /\ xpc = "idle"
    /\ xrelationship = None
    /\ xcreated_relationships = <<>>
    /\ exists = None

\* the RelationshipParser before any call
RIdle ==
    /\ rpc = "idle"
    /\ input_doc_dict = EmptyDict
    /\ rlogger = Logger
    /\ relationships_list = <<>>
    /\ relationships = <<>>
    /\ describes_relationships = <<>>
    /\ contains_relationships = <<>>
    /\ rresult = NoResult
    /\ rcalls = 0

\* Parser.__init__, and the input parse is called with
Init ==
    /\ logger = Logger
    /\ element_stack = <<>>
    /\ current_element = NewElement
    /\ creation_info = NewElement
    /\ elements_build = EmptyDict
    /\ pc = "parsing"
    /\ result = NoResult
    /\ calls = 1
    /\ \E i \in Inputs : rest = i.tags /\ budget = i.budget
    /\ consumed = <<>>
    /\ appended = {}
    /\ RIdle
    /\ XIdle

Next ==
    \/ p_unknown_tag \/ p_spdx_id
    \/ p_doc_comment \/ p_doc_comment_error \/ p_doc_namespace \/ p_data_license
    \/ p_doc_name \/ p_spdx_version \/ p_creator \/ p_created
    \/ p_extracted_license_id \/ p_extracted_license_id_error
    \/ p_file_name \/ p_file_name_error \/ p_file_comment \/ p_file_comment_error
    \/ p_file_type \/ p_file_license_info
    \/ p_package_name \/ p_package_name_error
    \/ p_package_version \/ p_package_version_error \/ p_pkg_external_refs
    \/ p_snippet_spdx_id \/ p_snippet_spdx_id_error
    \/ p_snippet_byte_range \/ p_snippet_line_range
    \/ p_annotator \/ p_annotator_error \/ p_annotation_spdx_id
    \/ p_relationship \/ p_relationship_error
    \/ parse
    \/ parse_second_call

Spec == Init /\ [][Next]_vars

(***************************************************************************)
(* Claims about the tag/value Parser.                                      *)
(***************************************************************************)
\* the value tags of the model, and the element kind each belongs to
ValueTags == {"file_comment", "file_type", "package_version", "annotation_spdx_id"}
ValueTagClass(tag) ==
    CASE tag \in {"file_comment", "file_type"} -> "File"
      [] tag = "package_version" -> "Package"
      [] tag = "annotation_spdx_id" -> "Annotation"

\* C1 (as claimed): a value tag of kind C that arrives while the open
\* accumulator has another kind, or while no element is open, appends one
\* "not the current element in scope" message to the document-level logger
\* and leaves every field of current_element unchanged.
C1_ScopeIsolation ==
    [][(pc = "parsing" /\ consumed' # consumed /\ Last(consumed').tag \in ValueTags
          /\ ~(Has(current_element, "class")
               /\ current_element["class"] = ValueTagClass(Last(consumed').tag)))
       => (/\ logger' = Append(logger, NotInScope(ValueTagClass(Last(consumed').tag)))
           /\ current_element' = current_element)]_vars

\* C2 (as claimed): parse returns a Document only if no message was logged
\* at any level during the whole parse; if any was, parse raises.
C2_AllOrNothing ==
    (pc = "done" /\ appended # {}) => result.kind # "Document"

\* C3 (as claimed): every message appended to any logger is contained in
\* the message list of the failure parse raises at end of input.
C3_NoMessageLost ==
    (pc = "done" /\ result.kind = "SPDXParsingError")
        => appended \subseteq Atoms(result.messages)

\* the tags that start an element, well-formed or not
StartTags ==
    {"file_name", "package_name", "snip_spdx_id", "annotator", "relationship",
     "extr_lic_id", "file_name_error", "package_name_error", "snip_spdx_id_error",
     "annotator_error", "relationship_error", "extr_lic_id_error"}
\* a tag whose value is malformed
IsMalformed(t) ==
    \/ t.tag \in {"file_name_error", "package_name_error", "snip_spdx_id_error",
                  "annotator_error", "relationship_error", "extr_lic_id_error",
                  "file_comment_error", "package_version_error"}
    \/ t.tag = "annotator" /\ ActorFails(t.v)
    \/ t.tag = "relationship" /\ (Len(t.words) # 3 \/ t.words[2] \notin RelationshipTypeNames)
\* the elements of an input that hold a malformed tag: an element reaches
\* from its start tag to the tag before the next start tag
MalformedElements(tags) ==
    {i \in DOMAIN tags :
        /\ tags[i].tag \in StartTags
        /\ \E j \in i..Len(tags) :
              /\ IsMalformed(tags[j])
              /\ \A k \in (i+1)..j : tags[k].tag \notin StartTags}

\* C4 (as claimed): when N elements of the input are malformed, parse
\* raises a failure that carries at least N messages, one per element.
C4_CompleteErrorReport ==
    (pc # "parsing" /\ MalformedElements(consumed) # {})
        => /\ result.kind = "SPDXParsingError"
           /\ Cardinality(Atoms(result.messages)) >= Cardinality(MalformedElements(consumed))

\* C5 (as claimed): the implicit-containment input ends with exactly one
\* Package SPDXRef-P, exactly one File SPDXRef-f and exactly one
\* relationship (SPDXRef-P, CONTAINS, SPDXRef-f) in elements_build, and
\* finalizing the File raises no exception.
C5_ImplicitContainment ==
    (pc # "parsing" /\ consumed = ImplicitContainmentInput)
        => /\ result.kind # "KeyError"
           /\ Has(elements_build, "packages")
           /\ Len(elements_build["packages"]) = 1
           /\ elements_build["packages"][1]["spdx_id"] = "SPDXRef-P"
           /\ Has(elements_build, "files")
           /\ Len(elements_build["files"]) = 1
           /\ elements_build["files"][1]["spdx_id"] = "SPDXRef-f"
           /\ Has(elements_build, "relationships")
           /\ elements_build["relationships"]
                  = <<Relationship("SPDXRef-P", "CONTAINS", "SPDXRef-f", None)>>

\* the CONTAINS edges elements_build holds
ContainsEdges ==
    IF Has(elements_build, "relationships")
    THEN {<<r.spdx_element_id, r.related_spdx_element_id>> :
             r \in {x \in Range(elements_build["relationships"]) :
                       x.relationship_type = "CONTAINS"}}
    ELSE {}

\* an input that holds P1, f1, f2, P2, f3 after its document-level tags
IsLastPackageInput(tags) ==
    \E n \in 0..Len(tags) :
        /\ SubSeq(tags, n + 1, Len(tags)) = LastPackageInput
        /\ \A k \in 1..n : tags[k].tag \notin StartTags \ {"relationship"}

\* C6 (as claimed): for every input with package P1, files f1 and f2,
\* package P2 and file f3, the relationships hold (P1, CONTAINS, f1),
\* (P1, CONTAINS, f2) and (P2, CONTAINS, f3) and none of (P1, CONTAINS, f3),
\* (P2, CONTAINS, f1), (P2, CONTAINS, f2).
C6_LastPackagePersistence ==
    (pc # "parsing" /\ budget = 0 /\ IsLastPackageInput(consumed \o rest))
        => /\ {<<"SPDXRef-P1", "SPDXRef-f1">>, <<"SPDXRef-P1", "SPDXRef-f2">>,
                <<"SPDXRef-P2", "SPDXRef-f3">>} \subseteq ContainsEdges
           /\ ContainsEdges \cap {<<"SPDXRef-P1", "SPDXRef-f3">>,
                                  <<"SPDXRef-P2", "SPDXRef-f1">>,
                                  <<"SPDXRef-P2", "SPDXRef-f2">>} = {}

(***************************************************************************)
(* The RelationshipParser (relationship_parser.py).                        *)
(***************************************************************************)
\* Relationship(...) raises ConstructorTypeErrors for an id that is no str
IdFails(id) == id = None

\* parse_relationship_type: the enum member, or SPDXParsingError
RelationshipTypeFails(name) == name \notin RelationshipTypeNames

\* parse_relationship(relationship_dict): the relationship, or the
\* messages of the SPDXParsingError it raises
parse_relationship(relationship_dict) ==
    IF RelationshipTypeFails(relationship_dict["relationshipType"])
    THEN [messages |-> <<ErrorWhileParsing("relationship",
                          <<Msg("relationship_type", relationship_dict["relationshipType"], 0)>>)>>,
          relationship |-> None]
    ELSE IF IdFails(relationship_dict["spdxElementId"])
              \/ IdFails(relationship_dict["relatedSpdxElement"])
    THEN [messages |-> <<ErrorWhileConstructing("Relationship")>>, relationship |-> None]
    ELSE [messages |-> <<>>,
          relationship |-> Relationship(relationship_dict["spdxElementId"],
                                        relationship_dict["relationshipType"],
                                        relationship_dict["relatedSpdxElement"],
                                        relationship_dict["comment"])]

\* a variant of parse_relationships that skips a relationship equal to one
\* it has already parsed
RECURSIVE parse_relationships_deduplicated(_)
parse_relationships_deduplicated(relationship_dicts) ==
    IF relationship_dicts = <<>> THEN [relationship_list |-> <<>>, logger |-> <<>>]
    ELSE LET n == Len(relationship_dicts)
             before == parse_relationships_deduplicated(SubSeq(relationship_dicts, 1, n - 1))
             one == parse_relationship(relationship_dicts[n])
         IN  IF one.messages # <<>>
             THEN [before EXCEPT !.logger = @ \o one.messages]
             ELSE IF one.relationship \in Range(before.relationship_list) THEN before
             ELSE [before EXCEPT !.relationship_list = Append(@, one.relationship)]

\* parse_relationships(relationship_dicts): the list it returns, and the
\* messages its local logger collected; with messages it raises
\* SPDXParsingError(logger.has_messages()), whose "messages" is True
RECURSIVE parse_relationships(_)
parse_relationships(relationship_dicts) ==
    IF relationship_dicts = <<>> THEN [relationship_list |-> <<>>, logger |-> <<>>]
    ELSE LET n == Len(relationship_dicts)
             before == parse_relationships(SubSeq(relationship_dicts, 1, n - 1))
             one == parse_relationship(relationship_dicts[n])
         IN  IF one.messages # <<>>
             THEN [before EXCEPT !.logger = @ \o one.messages]
             ELSE [before EXCEPT !.relationship_list = Append(@, one.relationship)]

convert_relationship_types(t) ==
    CASE t = "DESCRIBES" -> "DESCRIBED_BY"
      [] t = "DESCRIBED_BY" -> "DESCRIBES"
      [] t = "CONTAINS" -> "CONTAINED_BY"
      [] t = "CONTAINED_BY" -> "CONTAINS"

\* a variant of convert_relationship that converts the type and leaves the
\* two ids in place
convert_relationship_without_swap(relationship) ==
    Relationship(relationship.spdx_element_id,
                 convert_relationship_types(relationship.relationship_type),
                 relationship.related_spdx_element_id,
                 relationship.comment)

convert_relationship(relationship) ==
    Relationship(relationship.related_spdx_element_id,
                 convert_relationship_types(relationship.relationship_type),
                 relationship.spdx_element_id,
                 relationship.comment)

\* a variant of ignore_any_comments_in_relationship_list that keeps the comments
keep_any_comments_in_relationship_list(created_relationships) ==
    created_relationships

ignore_any_comments_in_relationship_list(created_relationships) ==
    [i \in DOMAIN created_relationships |->
        Relationship(created_relationships[i].spdx_element_id,
                     created_relationships[i].relationship_type,
                     created_relationships[i].related_spdx_element_id,
                     None)]

\* a variant of check_if_relationship_exists that tests the converted
\* relationship only
check_if_converted_relationship_exists(relationship, created_relationships) ==
    convert_relationship(relationship)
        \in Range(ignore_any_comments_in_relationship_list(created_relationships))

check_if_relationship_exists(relationship, created_relationships) ==
    LET created_relationships_without_comment ==
            ignore_any_comments_in_relationship_list(created_relationships)
    IN  IF relationship \in Range(created_relationships_without_comment) THEN TRUE
        ELSE IF convert_relationship(relationship)
                    \in Range(created_relationships_without_comment) THEN TRUE
        ELSE FALSE

\* a variant of parse_document_describes that attempts no candidate after
\* the first one that failed
RECURSIVE parse_document_describes_until_failure(_, _, _)
parse_document_describes_until_failure(doc_spdx_id, described_spdx_ids, created_relationships) ==
    IF described_spdx_ids = <<>> THEN [list |-> <<>>, logger |-> <<>>]
    ELSE LET n == Len(described_spdx_ids)
             before == parse_document_describes_until_failure(doc_spdx_id,
                           SubSeq(described_spdx_ids, 1, n - 1), created_relationships)
             spdx_id == described_spdx_ids[n]
             describes_relationship == Relationship(doc_spdx_id, "DESCRIBES", spdx_id, None)
         IN  IF before.logger # <<>> THEN before
             ELSE IF IdFails(doc_spdx_id) \/ IdFails(spdx_id)
             THEN [before EXCEPT !.logger = Append(@, ErrorWhileConstructing("Relationship"))]
             ELSE IF ~check_if_relationship_exists(describes_relationship, created_relationships)
             THEN [before EXCEPT !.list = Append(@, describes_relationship)]
             ELSE before

\* the loop of parse_document_describes over described_spdx_ids: the list
\* of relationships and the local logger after the last id
RECURSIVE parse_document_describes(_, _, _)
parse_document_describes(doc_spdx_id, described_spdx_ids, created_relationships) ==
    IF described_spdx_ids = <<>> THEN [list |-> <<>>, logger |-> <<>>]
    ELSE LET n == Len(described_spdx_ids)
             before == parse_document_describes(doc_spdx_id,
                           SubSeq(described_spdx_ids, 1, n - 1), created_relationships)
             spdx_id == described_spdx_ids[n]
             describes_relationship == Relationship(doc_spdx_id, "DESCRIBES", spdx_id, None)
         IN  IF IdFails(doc_spdx_id) \/ IdFails(spdx_id)
             THEN [before EXCEPT !.logger = Append(@, ErrorWhileConstructing("Relationship"))]
             ELSE IF ~check_if_relationship_exists(describes_relationship, created_relationships)
             THEN [before EXCEPT !.list = Append(@, describes_relationship)]
             ELSE before

\* the inner loop of parse_has_files over the hasFiles of one package
RECURSIVE contained_files_loop(_, _, _)
contained_files_loop(package_spdx_id, contained_files, created_relationships) ==
    IF contained_files = <<>> THEN [list |-> <<>>, logger |-> <<>>]
    ELSE LET n == Len(contained_files)
             before == contained_files_loop(package_spdx_id,
                           SubSeq(contained_files, 1, n - 1), created_relationships)
             file_spdx_id == contained_files[n]
             contains_relationship ==
                 Relationship(package_spdx_id, "CONTAINS", file_spdx_id, None)
         IN  IF IdFails(package_spdx_id) \/ IdFails(file_spdx_id)
             THEN [before EXCEPT !.logger = Append(@, ErrorWhileConstructing("Relationship"))]
             ELSE IF ~check_if_relationship_exists(contains_relationship, created_relationships)
             THEN [before EXCEPT !.list = Append(@, contains_relationship)]
             ELSE before

\* the loop of parse_has_files over package_dicts
RECURSIVE parse_has_files(_, _)
parse_has_files(package_dicts, created_relationships) ==
    IF package_dicts = <<>> THEN [list |-> <<>>, logger |-> <<>>]
    ELSE LET n == Len(package_dicts)
             before == parse_has_files(SubSeq(package_dicts, 1, n - 1), created_relationships)
             package == package_dicts[n]
             inner == contained_files_loop(package["SPDXID"], package["hasFiles"],
                                           created_relationships)
         IN  [list |-> before.list \o inner.list, logger |-> before.logger \o inner.logger]

\* a variant of dependency_of_loop that leaves out an edge it has already
\* collected
RECURSIVE dependency_of_loop_once(_, _)
dependency_of_loop_once(file_spdx_id, dependency_of) ==
    IF dependency_of = <<>> THEN [list |-> <<>>, logger |-> <<>>]
    ELSE LET n == Len(dependency_of)
             before == dependency_of_loop_once(file_spdx_id, SubSeq(dependency_of, 1, n - 1))
             edge == Relationship(dependency_of[n], "DEPENDENCY_OF", file_spdx_id, None)
         IN  IF IdFails(dependency_of[n]) \/ IdFails(file_spdx_id)
             THEN [before EXCEPT !.logger = Append(@, ErrorWhileConstructing("Relationship"))]
             ELSE IF edge \in Range(before.list) THEN before
             ELSE [before EXCEPT !.list = Append(@, edge)]

\* the inner loop of parse_file_dependencies over the fileDependencies of a file
RECURSIVE dependency_of_loop(_, _)
dependency_of_loop(file_spdx_id, dependency_of) ==
    IF dependency_of = <<>> THEN [list |-> <<>>, logger |-> <<>>]
    ELSE LET n == Len(dependency_of)
             before == dependency_of_loop(file_spdx_id, SubSeq(dependency_of, 1, n - 1))
             dependency == dependency_of[n]
         IN  IF IdFails(dependency) \/ IdFails(file_spdx_id)
             THEN [before EXCEPT !.logger = Append(@, ErrorWhileConstructing("Relationship"))]
             ELSE [before EXCEPT !.list =
                      Append(@, Relationship(dependency, "DEPENDENCY_OF", file_spdx_id, None))]

RECURSIVE parse_file_dependencies(_)
parse_file_dependencies(file_dicts) ==
    IF file_dicts = <<>> THEN [list |-> <<>>, logger |-> <<>>]
    ELSE LET n == Len(file_dicts)
             before == parse_file_dependencies(SubSeq(file_dicts, 1, n - 1))
             inner == dependency_of_loop(file_dicts[n]["SPDXID"],
                                         file_dicts[n]["fileDependencies"])
         IN  [list |-> before.list \o inner.list, logger |-> before.logger \o inner.logger]

\* a variant of parse_artifact_of that builds an edge for every entry of
\* artifactOfs
RECURSIVE parse_artifact_of_generated(_)
parse_artifact_of_generated(file_dicts) ==
    IF file_dicts = <<>> THEN <<>>
    ELSE LET n == Len(file_dicts)
             f == file_dicts[n]
         IN  parse_artifact_of_generated(SubSeq(file_dicts, 1, n - 1))
             \o [i \in DOMAIN f["artifactOfs"] |->
                    Relationship(f["SPDXID"], "GENERATED_FROM", f["artifactOfs"][i].name, None)]

parse_artifact_of(file_dicts) == <<>>

(***************************************************************************)
(* The mapping-shaped documents parse_all_relationships is called with.    *)
(* A key that is absent and a key whose list is empty are both falsy for   *)
(* the code, and are both modelled by the empty list.                      *)
(***************************************************************************)
PackageId == "SPDXRef-A"
FileId == "SPDXRef-B"

RelationshipDict(a, t, b, c) ==
    [spdxElementId |-> a, relationshipType |-> t, relatedSpdxElement |-> b, comment |-> c]
PackageDict(id, hasFiles) == [SPDXID |-> id, hasFiles |-> hasFiles]
\* a file entry with the deprecated artifactOfs field
FileDictWithArtifactOfs(id, deps, artifactOfs) ==
    [SPDXID |-> id, fileDependencies |-> deps, artifactOfs |-> artifactOfs]
FileDict(id, deps) == FileDictWithArtifactOfs(id, deps, <<>>)
DocDict(rels, describes, packages, files) ==
    [relationships |-> rels, documentDescribes |-> describes, SPDXID |-> DocId,
     packages |-> packages, files |-> files]

SeqsUpTo(S, n) == UNION {[1..k -> S] : k \in 0..n}

\* explicit relationships: the edges the implied candidates can meet and
\* their inverses, with and without a comment, and one with an invalid type
DescribesPool ==
    {RelationshipDict(DocId, "DESCRIBES", PackageId, None),
     RelationshipDict(DocId, "DESCRIBES", PackageId, "c"),
     RelationshipDict(PackageId, "DESCRIBED_BY", DocId, "c")}
ContainsPool ==
    {RelationshipDict(PackageId, "CONTAINS", FileId, None),
     RelationshipDict(PackageId, "CONTAINS", FileId, "c"),
     RelationshipDict(FileId, "CONTAINED_BY", PackageId, None)}
InvalidPool == {RelationshipDict(PackageId, "BOGUS", FileId, None)}
ExplicitPool == DescribesPool \cup ContainsPool \cup InvalidPool
\* an explicit edge equal to the one a fileDependencies entry implies
DependencyPool == {RelationshipDict(PackageId, "DEPENDENCY_OF", FileId, None)}

DocDicts ==
    \* explicit relationships and documentDescribes
    {DocDict(rels, describes, <<>>, <<>>) :
        rels \in SeqsUpTo(DescribesPool \cup InvalidPool, MaxExplicit),
        describes \in SeqsUpTo({PackageId, FileId}, MaxImplied)}
    \cup
    \* explicit relationships and packages with hasFiles
    {DocDict(rels, <<>>, packages, <<>>) :
        rels \in SeqsUpTo(ContainsPool \cup InvalidPool, MaxExplicit),
        packages \in SeqsUpTo({PackageDict(PackageId, hasFiles) :
                                  hasFiles \in SeqsUpTo({FileId}, MaxImplied)},
                              MaxPackages)}
    \cup
    \* explicit relationships and files with fileDependencies
    {DocDict(rels, <<>>, <<>>, files) :
        rels \in SeqsUpTo(DependencyPool \cup InvalidPool, MaxExplicit),
        files \in SeqsUpTo({FileDict(FileId, deps) :
                               deps \in SeqsUpTo({PackageId}, MaxImplied)},
                           MaxPackages)}
    \cup
    \* all four keys, ids that are no str included
    {DocDict(rels, describes, packages, files) :
        rels \in SeqsUpTo(ExplicitPool, MaxExplicit),
        describes \in {<<>>, <<PackageId>>, <<None>>, <<None, PackageId, None>>},
        packages \in {<<>>, <<PackageDict(PackageId, <<FileId>>)>>,
                      <<PackageDict(PackageId, <<None, FileId>>),
                        PackageDict(PackageId, <<None>>)>>},
        files \in {<<>>, <<FileDict(FileId, <<PackageId>>)>>,
                   <<FileDictWithArtifactOfs(FileId, <<PackageId>>,
                                             <<[name |-> "project"]>>)>>,
                   <<FileDict(FileId, <<None, PackageId>>),
                     FileDict(FileId, <<None>>)>>}}

(***************************************************************************)
(* One call of parse_all_relationships, a step per phase.                  *)
(***************************************************************************)
TypeError == [kind |-> "TypeError", messages |-> <<>>]
Returned == [kind |-> "list", messages |-> <<>>]
\* "Error while creating <what> : [<messages>]"
ErrorWhileCreating(what, msgs) ==
    [k |-> "creating", what |-> what, line |-> 0, msgs |-> msgs]

\* lines 28-35: the explicit relationships.  When parse_relationships
\* raises, err.get_messages() is True and self.logger.append_all(True)
\* raises TypeError, which leaves parse_all_relationships
parse_all_relationships_explicit ==
    /\ rpc = "start"
    /\ LET relationships_dicts == input_doc_dict["relationships"]
           parsed == parse_relationships(relationships_dicts)
       IN  IF relationships_dicts = <<>>
           THEN /\ rpc' = "describes"
                /\ UNCHANGED <<relationships, relationships_list, rresult>>
           ELSE IF parsed.logger = <<>>
           THEN /\ rpc' = "describes"
                /\ relationships' = parsed.relationship_list
                /\ relationships_list' = relationships_list \o parsed.relationship_list
                /\ UNCHANGED rresult
           ELSE /\ rpc' = "raised"
                /\ rresult' = TypeError
                /\ UNCHANGED <<relationships, relationships_list>>
    /\ UNCHANGED <<input_doc_dict, rlogger, describes_relationships, contains_relationships>>
    /\ UNCHANGED <<rcalls, pvars, xvars>>

\* lines 37-46: documentDescribes
parse_all_relationships_describes ==
    /\ rpc = "describes"
    /\ rpc' = "contains"
    /\ LET document_describes == input_doc_dict["documentDescribes"]
           doc_spdx_id == input_doc_dict["SPDXID"]
           out == parse_document_describes(doc_spdx_id, document_describes, relationships_list)
       IN  IF document_describes = <<>>
           THEN UNCHANGED <<describes_relationships, relationships_list, rlogger>>
           ELSE IF out.logger = <<>>
           THEN /\ describes_relationships' = out.list
                /\ relationships_list' = relationships_list \o out.list
                /\ UNCHANGED rlogger
           ELSE /\ rlogger' = Append(rlogger,
                                 ErrorWhileCreating("describes_relationship", out.logger))
                /\ UNCHANGED <<describes_relationships, relationships_list>>
    /\ UNCHANGED <<input_doc_dict, relationships, contains_relationships, rresult>>
    /\ UNCHANGED <<rcalls, pvars, xvars>>

\* lines 48-55: hasFiles of the packages
parse_all_relationships_contains ==
    /\ rpc = "contains"
    /\ rpc' = "dependencies"
    /\ LET package_dicts == input_doc_dict["packages"]
           out == parse_has_files(package_dicts, relationships_list)
       IN  IF package_dicts = <<>>
           THEN UNCHANGED <<contains_relationships, relationships_list, rlogger>>
           ELSE IF out.logger = <<>>
           THEN /\ contains_relationships' = out.list
                /\ relationships_list' = relationships_list \o out.list
                /\ UNCHANGED rlogger
           ELSE /\ rlogger' = Append(rlogger,
                                 ErrorWhileCreating("describes_relationship", out.logger))
                /\ UNCHANGED <<contains_relationships, relationships_list>>
    /\ UNCHANGED <<input_doc_dict, relationships, describes_relationships, rresult>>
    /\ UNCHANGED <<rcalls, pvars, xvars>>

\* lines 57-65: fileDependencies and artifactOf of the files
parse_all_relationships_dependencies ==
    /\ rpc = "dependencies"
    /\ rpc' = "return"
    /\ LET file_dicts == input_doc_dict["files"]
           out == parse_file_dependencies(file_dicts)
       IN  IF file_dicts = <<>>
           THEN UNCHANGED <<relationships_list, rlogger>>
           ELSE IF out.logger = <<>>
           THEN /\ relationships_list' = relationships_list \o out.list
                /\ UNCHANGED rlogger
           ELSE /\ rlogger' = Append(rlogger,
                                 ErrorWhileCreating("dependency relationships", out.logger))
                /\ UNCHANGED relationships_list
    /\ UNCHANGED <<input_doc_dict, relationships, describes_relationships,
                   contains_relationships, rresult>>
    /\ UNCHANGED <<rcalls, pvars, xvars>>

\* lines 67-70: raise the collected messages, or return the list
parse_all_relationships_return ==
    /\ rpc = "return"
    /\ IF rlogger # <<>>
       THEN rpc' = "raised" /\ rresult' = SPDXParsingError(rlogger)
       ELSE rpc' = "done" /\ rresult' = Returned
    /\ UNCHANGED <<input_doc_dict, rlogger, relationships_list, relationships,
                   describes_relationships, contains_relationships>>
    /\ UNCHANGED <<rcalls, pvars, xvars>>

\* the Parser while only the RelationshipParser runs
PIdle ==
    /\ logger = Logger
    /\ element_stack = <<>>
    /\ current_element = NewElement
    /\ creation_info = NewElement
    /\ elements_build = EmptyDict
    /\ pc = "idle"
    /\ result = NoResult
    /\ calls = 0
    /\ rest = <<>>
    /\ budget = 0
    /\ consumed = <<>>
    /\ appended = {}

\* RelationshipParser.__init__, and the argument of the call
InitRel ==
    /\ PIdle
    /\ XIdle
    /\ rpc = "start"
    /\ input_doc_dict \in DocDicts
    /\ rlogger = Logger
    /\ relationships_list = <<>>
    /\ relationships = <<>>
    /\ describes_relationships = <<>>
    /\ contains_relationships = <<>>
    /\ rresult = NoResult
    /\ rcalls = 1

NextRel ==
    \/ parse_all_relationships_explicit
    \/ parse_all_relationships_describes
    \/ parse_all_relationships_contains
    \/ parse_all_relationships_dependencies
    \/ parse_all_relationships_return

SpecRel == InitRel /\ [][NextRel]_vars

(***************************************************************************)
(* Two calls of parse_all_relationships on one RelationshipParser.         *)
(***************************************************************************)
\* the documents of the second call: one without defects, one whose
\* describes phase fails, one whose dependency phase fails, an empty one
ValidDocDict ==
    DocDict(<<RelationshipDict(DocId, "DESCRIBES", PackageId, "c")>>, <<FileId>>,
            <<PackageDict(PackageId, <<FileId>>)>>, <<FileDict(FileId, <<PackageId>>)>>)
SecondDocDicts ==
    {ValidDocDict,
     DocDict(<<>>, <<None>>, <<>>, <<>>),
     DocDict(<<>>, <<>>, <<>>, <<FileDict(FileId, <<None>>)>>),
     DocDict(<<>>, <<>>, <<>>, <<>>)}

\* the second call: relationships_list and the lists of the phases are
\* locals of the call, self.logger is the one __init__ created
parse_all_relationships_second_call ==
    /\ rpc \in {"done", "raised"}
    /\ rcalls = 1
    /\ rcalls' = 2
    /\ rpc' = "start"
    /\ input_doc_dict' \in SecondDocDicts
    /\ relationships_list' = <<>>
    /\ relationships' = <<>>
    /\ describes_relationships' = <<>>
    /\ contains_relationships' = <<>>
    /\ rresult' = NoResult
    /\ UNCHANGED rlogger
    /\ UNCHANGED <<pvars, xvars>>

NextRelCalls == NextRel \/ parse_all_relationships_second_call

SpecRelCalls == InitRel /\ [][NextRelCalls]_vars

(***************************************************************************)
(* One call of check_if_relationship_exists, a public method, with a       *)
(* candidate of any relationship type.                                     *)
(***************************************************************************)
\* the keys of the dict convert_relationship_types
InverseTypes == {"DESCRIBES", "DESCRIBED_BY", "CONTAINS", "CONTAINED_BY"}

\* convert_relationship raises KeyError when the dict has no entry for the
\* type of the relationship
convert_relationship_raises(rel) == rel.relationship_type \notin InverseTypes

\* check_if_relationship_exists calls convert_relationship unless it found
\* the relationship itself
check_if_relationship_exists_raises(rel, created) ==
    /\ rel \notin Range(ignore_any_comments_in_relationship_list(created))
    /\ convert_relationship_raises(rel)

\* the candidates and the existing relationships of the call
CandidateTypes == InverseTypes \cup {"DEPENDENCY_OF"}
CallCandidates ==
    {Relationship(ids[1], t, ids[2], None) :
        ids \in {<<PackageId, FileId>>, <<FileId, PackageId>>}, t \in CandidateTypes}
CallExisting ==
    {Relationship(r.spdx_element_id, r.relationship_type, r.related_spdx_element_id, c) :
        r \in CallCandidates, c \in {None, "c"}}

check_if_relationship_exists_call ==
    /\ xpc = "call"
    /\ xpc' = "done"
    /\ exists' = IF check_if_relationship_exists_raises(xrelationship, xcreated_relationships)
                 THEN "KeyError"
                 ELSE IF check_if_relationship_exists(xrelationship, xcreated_relationships)
                 THEN "True"
                 ELSE "False"
    /\ UNCHANGED <<xrelationship, xcreated_relationships>>
    /\ UNCHANGED <<pvars, rvars>>

InitExists ==
    /\ PIdle
    /\ RIdle
    /\ xpc = "call"
    /\ xrelationship \in CallCandidates
    /\ xcreated_relationships \in SeqsUpTo(CallExisting, MaxExplicit)
    /\ exists = None

NextExists == check_if_relationship_exists_call

SpecExists == InitExists /\ [][NextExists]_vars

(***************************************************************************)
(* Properties of the RelationshipParser.                                   *)
(***************************************************************************)
Ids == {DocId, PackageId, FileId}
Comments == {None, "c", "d"}

\* the positions of L that hold an edge of one of the types between a and b,
\* in either direction
EdgesBetween(L, types, a, b) ==
    {i \in DOMAIN L :
        /\ L[i].relationship_type \in types
        /\ \/ L[i].spdx_element_id = a /\ L[i].related_spdx_element_id = b
           \/ L[i].spdx_element_id = b /\ L[i].related_spdx_element_id = a}

DescribesTypes == {"DESCRIBES", "DESCRIBED_BY"}
ContainsTypes == {"CONTAINS", "CONTAINED_BY"}

\* the explicit relationships of the input hold (a, t, b), whatever the comment
ExplicitHolds(a, t, b) ==
    \E i \in DOMAIN input_doc_dict["relationships"] :
        LET d == input_doc_dict["relationships"][i]
        IN  d["spdxElementId"] = a /\ d["relationshipType"] = t
            /\ d["relatedSpdxElement"] = b

\* the case of C7: an explicit (A, DESCRIBES, B), A the document id, and B
\* listed in documentDescribes
DescribedTwice(B) ==
    /\ ExplicitHolds(input_doc_dict["SPDXID"], "DESCRIBES", B)
    /\ B \in Range(input_doc_dict["documentDescribes"])

\* C7 as stated: when the explicit relationships contain (A, DESCRIBES, B),
\* A is the document id and documentDescribes lists B, the returned list
\* contains exactly one DESCRIBES or DESCRIBED_BY edge between A and B.
C7_DuplicateSuppression ==
    rpc = "done" =>
        \A B \in Ids :
            DescribedTwice(B) =>
                Cardinality(EdgesBetween(relationships_list, DescribesTypes,
                                         input_doc_dict["SPDXID"], B)) = 1

\* C7 amended: in that case the returned list contains exactly the DESCRIBES
\* and DESCRIBED_BY edges between A and B that the explicit relationships
\* contain, parse_document_describes adds none; so it contains exactly one
\* when the explicit relationships contain one.
C7_DuplicateSuppressionAmended ==
    rpc = "done" =>
        \A B \in Ids :
            DescribedTwice(B) =>
                /\ Cardinality(EdgesBetween(relationships_list, DescribesTypes,
                                            input_doc_dict["SPDXID"], B))
                       = Cardinality(EdgesBetween(relationships, DescribesTypes,
                                                  input_doc_dict["SPDXID"], B))
                /\ Relationship(input_doc_dict["SPDXID"], "DESCRIBES", B, None)
                       \notin Range(describes_relationships)

\* one explicit (DOC, DESCRIBES, A), A listed in documentDescribes, and the
\* list returned with that one edge
C7_Witness ==
    /\ rpc = "done"
    /\ DescribedTwice(PackageId)
    /\ Cardinality(EdgesBetween(relationships, DescribesTypes, DocId, PackageId)) = 1
    /\ Cardinality(EdgesBetween(relationships_list, DescribesTypes, DocId, PackageId)) = 1

\* C8: an explicit (B, DESCRIBED_BY, A) prevents parse_document_describes
\* from adding (A, DESCRIBES, B), and an explicit (F, CONTAINED_BY, P)
\* prevents parse_has_files from adding (P, CONTAINS, F): in the call, and
\* for every pair of ids against the relationships created so far.
C8_InverseSuppression ==
    /\ \A B \in Ids :
          (/\ rpc \notin {"start", "describes", "raised"}
           /\ ExplicitHolds(B, "DESCRIBED_BY", input_doc_dict["SPDXID"]))
          => Relationship(input_doc_dict["SPDXID"], "DESCRIBES", B, None)
                 \notin Range(describes_relationships)
    /\ \A P \in Ids, F \in Ids :
          (/\ rpc \notin {"start", "describes", "contains", "raised"}
           /\ ExplicitHolds(F, "CONTAINED_BY", P))
          => Relationship(P, "CONTAINS", F, None) \notin Range(contains_relationships)
    /\ \A a \in Ids, b \in Ids :
          /\ (\E i \in DOMAIN relationships_list :
                 /\ relationships_list[i].spdx_element_id = b
                 /\ relationships_list[i].relationship_type = "DESCRIBED_BY"
                 /\ relationships_list[i].related_spdx_element_id = a)
             => parse_document_describes(a, <<b>>, relationships_list).list = <<>>
          /\ (\E i \in DOMAIN relationships_list :
                 /\ relationships_list[i].spdx_element_id = b
                 /\ relationships_list[i].relationship_type = "CONTAINED_BY"
                 /\ relationships_list[i].related_spdx_element_id = a)
             => parse_has_files(<<PackageDict(a, <<b>>)>>, relationships_list).list = <<>>

\* explicit (A, DESCRIBED_BY, DOC) and (B, CONTAINED_BY, A), documentDescribes
\* listing A and hasFiles of A listing B: both phases ran and added nothing
C8_Witness ==
    /\ rpc = "done"
    /\ ExplicitHolds(PackageId, "DESCRIBED_BY", DocId)
    /\ ExplicitHolds(FileId, "CONTAINED_BY", PackageId)
    /\ PackageId \in Range(input_doc_dict["documentDescribes"])
    /\ \E i \in DOMAIN input_doc_dict["packages"] :
          /\ input_doc_dict["packages"][i]["SPDXID"] = PackageId
          /\ FileId \in Range(input_doc_dict["packages"][i]["hasFiles"])
    /\ describes_relationships = <<>>
    /\ contains_relationships = <<>>
    /\ Len(relationships_list) = 2

\* the list L with the comment of its i-th relationship replaced by f[i]
WithComments(L, f) ==
    [i \in DOMAIN L |->
        Relationship(L[i].spdx_element_id, L[i].relationship_type,
                     L[i].related_spdx_element_id, f[i])]

\* the candidates parse_document_describes and parse_has_files build
Candidates ==
    {Relationship(DocId, "DESCRIBES", b, None) : b \in {PackageId, FileId}}
    \cup {Relationship(PackageId, "CONTAINS", FileId, None)}

\* C9: check_if_relationship_exists gives the same answer for a candidate
\* whatever the comments of the existing relationships are, and an explicit
\* edge or inverse edge that carries a comment suppresses the implied
\* candidate, which has none.
C9_CommentInsensitivity ==
    /\ \A c \in Candidates :
          \A f \in [DOMAIN relationships -> Comments] :
              check_if_relationship_exists(c, WithComments(relationships, f))
                  = check_if_relationship_exists(c, relationships)
    /\ \A i \in DOMAIN relationships :
          LET r == relationships[i]
          IN  r.comment # None =>
                /\ (/\ rpc \notin {"start", "describes", "raised"}
                    /\ r.relationship_type \in DescribesTypes)
                   => /\ Relationship(r.spdx_element_id, "DESCRIBES",
                                      r.related_spdx_element_id, None)
                             \notin Range(describes_relationships)
                      /\ Relationship(r.related_spdx_element_id, "DESCRIBES",
                                      r.spdx_element_id, None)
                             \notin Range(describes_relationships)
                /\ (/\ rpc \notin {"start", "describes", "contains", "raised"}
                    /\ r.relationship_type \in ContainsTypes)
                   => /\ Relationship(r.spdx_element_id, "CONTAINS",
                                      r.related_spdx_element_id, None)
                             \notin Range(contains_relationships)
                      /\ Relationship(r.related_spdx_element_id, "CONTAINS",
                                      r.spdx_element_id, None)
                             \notin Range(contains_relationships)

\* an explicit (A, CONTAINS, B) with a comment, hasFiles of A listing B, and
\* the list returned with the explicit edge only
C9_Witness ==
    /\ rpc = "done"
    /\ relationships = <<Relationship(PackageId, "CONTAINS", FileId, "c")>>
    /\ input_doc_dict["packages"] = <<PackageDict(PackageId, <<FileId>>)>>
    /\ contains_relationships = <<>>
    /\ relationships_list = relationships

\* how often x occurs in the list L
Occurrences(L, x) == Cardinality({i \in DOMAIN L : L[i] = x})

\* the hasFiles entries of all package entries with the SPDXID P, in order
RECURSIVE HasFilesOf(_, _)
HasFilesOf(package_dicts, P) ==
    IF package_dicts = <<>> THEN <<>>
    ELSE LET n == Len(package_dicts)
         IN  HasFilesOf(SubSeq(package_dicts, 1, n - 1), P)
             \o (IF package_dicts[n]["SPDXID"] = P
                 THEN package_dicts[n]["hasFiles"] ELSE <<>>)

\* C10 as stated: when documentDescribes lists an id twice, or a file id
\* occurs twice in the hasFiles of the package entries with one SPDXID, and
\* no explicit relationship covers the edge, the returned list contains that
\* DESCRIBES or CONTAINS edge exactly once.
C10_RepeatedImpliedSuppressed ==
    rpc = "done" =>
        /\ \A B \in Ids :
              LET edge == Relationship(input_doc_dict["SPDXID"], "DESCRIBES", B, None)
              IN  (/\ Occurrences(input_doc_dict["documentDescribes"], B) >= 2
                   /\ ~check_if_relationship_exists(edge, relationships))
                  => Occurrences(relationships_list, edge) = 1
        /\ \A P \in Ids, F \in Ids :
              LET edge == Relationship(P, "CONTAINS", F, None)
              IN  (/\ Occurrences(HasFilesOf(input_doc_dict["packages"], P), F) >= 2
                   /\ ~check_if_relationship_exists(edge, relationships))
                  => Occurrences(relationships_list, edge) = 1

\* the fileDependencies entries of all file entries, in order, each with
\* the SPDXID of its file
RECURSIVE DependencyEntries(_)
DependencyEntries(file_dicts) ==
    IF file_dicts = <<>> THEN <<>>
    ELSE LET n == Len(file_dicts)
             f == file_dicts[n]
         IN  DependencyEntries(SubSeq(file_dicts, 1, n - 1))
             \o [i \in DOMAIN f["fileDependencies"] |->
                    [d |-> f["fileDependencies"][i], f |-> f["SPDXID"]]]

\* what the dependency phase added to relationships_list: the part behind
\* the explicit, the describes and the contains relationships
AddedByDependencies ==
    SubSeq(relationships_list,
           Len(relationships) + Len(describes_relationships)
               + Len(contains_relationships) + 1,
           Len(relationships_list))

\* C11: for every file entry with SPDXID f and every occurrence of an id d
\* in its fileDependencies the dependency phase appends one edge
\* (d, DEPENDENCY_OF, f), in order and without duplicate suppression: as
\* many edges as there are entries, also when an identical edge is already
\* among the explicit relationships.
C11_FileDependencies ==
    LET entries == DependencyEntries(input_doc_dict["files"])
    IN  (/\ rpc \in {"return", "done"}
         /\ \A i \in DOMAIN entries : ~IdFails(entries[i].d) /\ ~IdFails(entries[i].f))
        => /\ Len(AddedByDependencies) = Len(entries)
           /\ \A i \in DOMAIN entries :
                 AddedByDependencies[i]
                     = Relationship(entries[i].d, "DEPENDENCY_OF", entries[i].f, None)

\* an explicit (A, DEPENDENCY_OF, B) and two file entries B that both list
\* A: the returned list holds the edge three times
C11_Witness ==
    /\ rpc = "done"
    /\ relationships = <<Relationship(PackageId, "DEPENDENCY_OF", FileId, None)>>
    /\ input_doc_dict["files"]
           = <<FileDict(FileId, <<PackageId>>), FileDict(FileId, <<PackageId>>)>>
    /\ Occurrences(relationships_list,
                   Relationship(PackageId, "DEPENDENCY_OF", FileId, None)) = 3

\* the positions of the explicit relationships that fail to parse
FailedEntries ==
    {i \in DOMAIN input_doc_dict["relationships"] :
        parse_relationship(input_doc_dict["relationships"][i]).messages # <<>>}

\* C12 as stated: when at least one entry of the explicit relationships
\* fails to parse, parse_all_relationships ends with an SPDXParsingError
\* whose message list holds the messages of every failed entry.
C12_CompleteDefectList ==
    (rpc \in {"raised", "done"} /\ FailedEntries # {})
    => /\ rresult.kind = "SPDXParsingError"
       /\ \A i \in FailedEntries :
             Range(parse_relationship(input_doc_dict["relationships"][i]).messages)
                 \subseteq Range(rresult.messages)

\* the hasFiles entries of all package entries, in order
RECURSIVE HasFilesEntries(_)
HasFilesEntries(package_dicts) ==
    IF package_dicts = <<>> THEN <<>>
    ELSE LET n == Len(package_dicts)
         IN  HasFilesEntries(SubSeq(package_dicts, 1, n - 1)) \o package_dicts[n]["hasFiles"]

\* the number of candidates of each phase whose construction fails
FailingDescribes ==
    Cardinality({i \in DOMAIN input_doc_dict["documentDescribes"] :
                    IdFails(input_doc_dict["documentDescribes"][i])})
FailingContains ==
    LET entries == HasFilesEntries(input_doc_dict["packages"])
    IN  Cardinality({i \in DOMAIN entries : IdFails(entries[i])})
FailingDependencies ==
    LET entries == DependencyEntries(input_doc_dict["files"])
    IN  Cardinality({i \in DOMAIN entries : IdFails(entries[i].d)})

\* one batched failure per phase that has a failing candidate, in the order
\* of the phases, each with one message per failing candidate
ExpectedPhaseFailures ==
    (IF FailingDescribes > 0
     THEN <<[what |-> "describes_relationship", n |-> FailingDescribes]>> ELSE <<>>)
    \o (IF FailingContains > 0
        THEN <<[what |-> "describes_relationship", n |-> FailingContains]>> ELSE <<>>)
    \o (IF FailingDependencies > 0
        THEN <<[what |-> "dependency relationships", n |-> FailingDependencies]>> ELSE <<>>)

\* C13: in the describes, contains and dependency phases every candidate is
\* attempted although an earlier one of the phase failed, a phase raises one
\* batched failure after its last candidate, and the failure of a phase
\* does not keep the later phases from running and reporting their own:
\* when the three phases have run, self.logger holds one message per phase
\* with a failing candidate, each holding one message per failing candidate,
\* and that is what the call raises.
C13_PhaseIndependence ==
    /\ rpc \in {"return", "done"} \/ (rpc = "raised" /\ rresult.kind = "SPDXParsingError")
       => [i \in DOMAIN rlogger |->
              [what |-> rlogger[i].what, n |-> Len(rlogger[i].msgs)]]
              = ExpectedPhaseFailures
    /\ (rpc = "raised" /\ rresult.kind = "SPDXParsingError")
       => rresult.messages = rlogger /\ rlogger # <<>>
    /\ rpc = "done" => rlogger = <<>>

\* all three phases failed, the describes phase on two candidates with a
\* valid one between them
C13_Witness ==
    /\ rpc = "raised"
    /\ rresult.kind = "SPDXParsingError"
    /\ input_doc_dict["documentDescribes"] = <<None, PackageId, None>>
    /\ Len(rresult.messages) = 3
    /\ Len(rresult.messages[1].msgs) = 2
    /\ rresult.messages[3].what = "dependency relationships"

\* C14 as stated: no grammar method and no finalization raises while the
\* tags are consumed, and the only exception parse raises is the aggregate
\* SPDXParsingError at the end of the input.
C14_NothingRaisedEagerly ==
    /\ pc # "raised"
    /\ pc = "done" => result.kind \in {"Document", "SPDXParsingError"}

\* what a call of parse on a new Parser builds from Header
FreshCreationInfo ==
    [spdx_version |-> "SPDX-2.3", data_license |-> "CC0-1.0", spdx_id |-> DocId,
     name |-> "doc", document_namespace |-> "https://ns",
     creators |-> <<"Tool: t">>, created |-> "2023-01-01T00:00:00Z"]

\* the document a call of parse on a new Parser returns for a second input
FreshOutcome(tags) ==
    IF tags = Header
    THEN [x \in {"creation_info"} |-> FreshCreationInfo]
    ELSE [creation_info |-> FreshCreationInfo,
          packages |-> <<[name |-> "Q", spdx_id |-> "SPDXRef-Q"]>>]

\* C15 as stated: a call of parse ends as its input alone determines,
\* whether it is the first or the second call on the Parser object; for the
\* second inputs that is the document a new Parser returns for them, with no
\* element, creation-info field or message of an earlier call.
C15_PrivateStatePerCall ==
    (pc \in {"done", "raised"} /\ rest = <<>> /\ consumed \in SecondInputs)
    => /\ result = Document
       /\ elements_build = FreshOutcome(consumed)
       /\ logger = <<>>

\* C16: parse_artifact_of returns the empty list whatever the files hold,
\* and the list parse_all_relationships builds holds nothing but the
\* explicit, describes, contains and dependency relationships: no edge
\* comes from artifactOfs.
C16_ArtifactOfUnsupported ==
    /\ parse_artifact_of(input_doc_dict["files"]) = <<>>
    /\ rpc \in {"return", "done"}
       => Len(relationships_list)
              = Len(relationships) + Len(describes_relationships)
                + Len(contains_relationships)
                + (IF FailingDependencies = 0
                   THEN Len(DependencyEntries(input_doc_dict["files"])) ELSE 0)

\* a file with an artifactOfs entry and one fileDependencies entry: the
\* returned list holds the dependency edge only
C16_Witness ==
    /\ rpc = "done"
    /\ \E i \in DOMAIN input_doc_dict["files"] :
          input_doc_dict["files"][i]["artifactOfs"] # <<>>
    /\ relationships_list = <<Relationship(PackageId, "DEPENDENCY_OF", FileId, None)>>

\* the tags whose methods call initialize_new_current_element
InitializingTags ==
    {"file_name", "file_name_error", "package_name", "package_name_error",
     "snip_spdx_id", "snip_spdx_id_error", "annotator", "annotator_error",
     "relationship", "relationship_error", "extr_lic_id"}

\* a step in which construct_current_element runs: the method of a tag that
\* calls initialize_new_current_element, or parse at the end of the input
Finalizes ==
    /\ pc = "parsing"
    /\ \/ pc' = "done"
       \/ /\ Len(consumed') = Len(consumed) + 1
          /\ consumed'[Len(consumed')].tag \in InitializingTags

\* C17: whenever construct_current_element runs on an accumulator that has
\* a class and local messages, no collection of elements_build changes,
\* the local messages are appended to the document-level logger as one
\* message tagged with the element kind, nothing is raised by the
\* finalization, and the accumulator that was open is discarded.
C17_FinalizationWithLocalErrors ==
    [][(/\ Finalizes
        /\ Has(current_element, "class")
        /\ current_element["logger"] # <<>>)
       => /\ elements_build' = elements_build
          /\ Len(logger') > Len(logger)
          /\ logger'[Len(logger) + 1]
                 = ErrorWhileParsing(current_element["class"], current_element["logger"])
          /\ \A i \in DOMAIN logger : logger'[i] = logger[i]
          /\ pc' # "raised"
          /\ construct_current_element(Self).current_element = NewElement
          /\ pc' = "done" => current_element' = NewElement]_vars

\* a File with a local message was finalized by the next start tag: its
\* message is the last of the document-level logger, and no file was added
C17_Witness ==
    /\ pc = "parsing"
    /\ logger # <<>>
    /\ Last(logger).k = "parsing"
    /\ Last(logger).what = "File"
    /\ consumed # <<>>
    /\ Last(consumed).tag \in InitializingTags
    /\ ~Has(elements_build, "files")

\* the arguments of the typed construction of the open accumulator
CurrentArgs == Pop(Pop(current_element, "class"), "logger")

\* the step is the method of a tag, which leaves the parse running
StartTagStep == Len(consumed') = Len(consumed) + 1

\* C18: when construct_current_element runs on an accumulator with a class
\* and no local message and the typed construction fails, the failure is
\* appended to the document-level logger, elements_build is left as it
\* was (no element, no CONTAINS relationship), nothing is raised and the
\* tag that caused the finalization opens its element; when the
\* construction succeeds the element is appended at the end of the
\* collection of its kind; and no step removes or reorders what a
\* collection holds, so each collection is in input order.
C18_ConstructionAtFinalization ==
    [][/\ (/\ Finalizes
           /\ Has(current_element, "class")
           /\ current_element["logger"] = <<>>
           /\ ConstructionFails(current_element["class"], CurrentArgs))
          => /\ elements_build' = elements_build
             /\ Len(logger') > Len(logger)
             /\ logger'[Len(logger) + 1] = ErrorWhileConstructing(current_element["class"])
             /\ pc' # "raised"
             /\ StartTagStep => /\ pc' = "parsing"
                                /\ Has(current_element', "class")
       /\ (/\ Finalizes
           /\ Has(current_element, "class")
           /\ current_element["logger"] = <<>>
           /\ ~ConstructionFails(current_element["class"], CurrentArgs))
          => LET key == CLASS_MAPPING(current_element["class"])
                 old == IF Has(elements_build, key) THEN elements_build[key] ELSE <<>>
                 new == Constructed(current_element["class"], CurrentArgs)
             IN  /\ Has(elements_build', key)
                 /\ Len(elements_build'[key]) > Len(old)
                 /\ SubSeq(elements_build'[key], 1, Len(old) + 1) = Append(old, new)
       /\ \A k \in DOMAIN elements_build \ {"creation_info"} :
             /\ Has(elements_build', k)
             /\ Len(elements_build'[k]) >= Len(elements_build[k])
             /\ SubSeq(elements_build'[k], 1, Len(elements_build[k])) = elements_build[k]
      ]_vars

\* the construction of a File failed at the next start tag, the Snippet
\* that follows was finalized by parse, and the one file built before stays
C18_Witness ==
    /\ pc = "done"
    /\ calls = 1
    /\ ErrorWhileConstructing("File") \in Range(logger)
    /\ Has(elements_build, "snippets")
    /\ Has(elements_build, "files")
    /\ Len(elements_build["files"]) = 1

\* a start tag with a well-formed value
IsWellFormedStartTag(t) ==
    \/ t.tag \in {"file_name", "package_name", "snip_spdx_id", "extr_lic_id"}
    \/ t.tag = "annotator" /\ ~ActorFails(t.v)
    \/ t.tag = "relationship" /\ Len(t.words) = 3 /\ t.words[2] \in RelationshipTypeNames

\* the kind of element a start tag opens
StartTagClass(tag) ==
    CASE tag = "file_name" -> "File"
      [] tag = "package_name" -> "Package"
      [] tag = "snip_spdx_id" -> "Snippet"
      [] tag = "extr_lic_id" -> "ExtractedLicensingInfo"
      [] tag = "annotator" -> "Annotation"
      [] tag = "relationship" -> "Relationship"

\* the accumulator a start tag opens: class, empty logger, and the fields
\* set from the value of the tag
OpenedBy(t) ==
    LET base == Put(NewElement, "class", StartTagClass(t.tag))
    IN  CASE t.tag \in {"file_name", "package_name"} -> Put(base, "name", t.v)
          [] t.tag = "snip_spdx_id" -> Put(base, "spdx_id", t.v)
          [] t.tag = "extr_lic_id" -> Put(base, "license_id", t.v)
          [] t.tag = "annotator" -> Put(base, "annotator", t.v)
          [] t.tag = "relationship" ->
                LET r == Put(Put(Put(base, "relationship_type", t.words[2]),
                                 "related_spdx_element_id", RelatedId(t.words[3])),
                             "spdx_element_id", t.words[1])
                IN  IF t.comment # None THEN Put(r, "comment", t.comment) ELSE r

\* C19 as stated: after every start tag with a well-formed value the open
\* accumulator has the class of the tag, an empty local logger and only the
\* fields set from the value of the tag; nothing carries over from the
\* accumulator that was open before.
C19_StartTagTransition ==
    [][(/\ pc = "parsing"
        /\ StartTagStep
        /\ IsWellFormedStartTag(consumed'[Len(consumed')]))
       => current_element' = OpenedBy(consumed'[Len(consumed')])]_vars

\* C20 as stated, for the end of the call: every accumulator a start tag
\* opened has been passed to construct_current_element by the time parse
\* returns or raises, so none is still open then.
C20_EveryAccumulatorFinalized ==
    pc \in {"done", "raised"} => ~Has(current_element, "class")

\* the start tags whose value did not match the grammar, and the kind of
\* element each belongs to
MalformedStartTags ==
    {"file_name_error", "package_name_error", "snip_spdx_id_error",
     "annotator_error", "relationship_error", "extr_lic_id_error"}
MalformedStartTagClass(tag) ==
    CASE tag = "file_name_error" -> "File"
      [] tag = "package_name_error" -> "Package"
      [] tag = "snip_spdx_id_error" -> "Snippet"
      [] tag = "annotator_error" -> "Annotation"
      [] tag = "relationship_error" -> "Relationship"
      [] tag = "extr_lic_id_error" -> "ExtractedLicensingInfo"

\* C21 as stated: a start tag of any of the six kinds whose value does not
\* match the grammar finalizes the open accumulator and opens a new one of
\* its kind, whose local logger holds the grammar error and nothing else;
\* the error is not appended to the logger of the element open before.
C21_MalformedStartTagOpensElement ==
    [][(/\ pc = "parsing"
        /\ StartTagStep
        /\ consumed'[Len(consumed')].tag \in MalformedStartTags)
       => /\ DOMAIN current_element' = {"class", "logger"}
          /\ current_element'["class"]
                 = MalformedStartTagClass(consumed'[Len(consumed')].tag)
          /\ Len(current_element'["logger"]) = 1
          /\ current_element'["logger"][1].k = "grammar"
          /\ current_element'["logger"][1].line = Len(consumed')
          /\ logger' = construct_current_element(Self).logger
          /\ elements_build' = construct_current_element(Self).elements_build]_vars

\* C22: the method of an unknown tag appends exactly one message to the
\* document-level logger, leaves current_element, creation_info,
\* elements_build and element_stack as they were, raises nothing, and the
\* parse goes on with the next tag.
C22_UnknownTag ==
    [][(/\ pc = "parsing"
        /\ StartTagStep
        /\ consumed'[Len(consumed')].tag = "unknown_tag")
       => /\ logger' = Append(logger, Msg("unknown_tag", "", Len(consumed')))
          /\ current_element' = current_element
          /\ creation_info' = creation_info
          /\ elements_build' = elements_build
          /\ element_stack' = element_stack
          /\ pc' = "parsing"]_vars

\* an unknown tag arrived while a File with a name and an id was open,
\* after a package had been added to elements_build
C22_Witness ==
    /\ pc = "parsing"
    /\ consumed # <<>>
    /\ Last(consumed).tag = "unknown_tag"
    /\ Has(current_element, "class")
    /\ current_element["class"] = "File"
    /\ Has(current_element, "spdx_id")
    /\ Has(elements_build, "packages")
    /\ logger # <<>>
    /\ Last(logger).k = "unknown_tag"

\* a start tag of some element kind has been consumed
StartTagSeen == \E i \in DOMAIN consumed : consumed[i].tag \in StartTags

\* the fields of creation_info, its local logger left aside
CreationInfoFields(ci) == Pop(ci, "logger")

\* C23 as stated: once the first start tag of any kind has been consumed, no
\* later tag changes any field of creation_info.
C23_CreationInfoFrozenAfterFirstStartTag ==
    [][(pc = "parsing" /\ StartTagStep /\ StartTagSeen)
       => CreationInfoFields(creation_info') = CreationInfoFields(creation_info)]_vars

\* no id tag has been consumed yet by this call of parse
NoIdTagYet == \A i \in DOMAIN consumed : consumed[i].tag # "spdx_id"

\* C24: the target of an id tag depends only on whether creation_info
\* already holds an spdx_id: without one the tag sets the document id and
\* leaves current_element alone, whatever accumulator is open; with one the
\* tag is written to current_element and leaves creation_info, the document
\* id with it, as it was.  In a call of parse on a new Parser creation_info
\* holds no spdx_id exactly until the first id tag of the input.
C24_DocumentIdResolution ==
    [][(/\ pc = "parsing"
        /\ StartTagStep
        /\ consumed'[Len(consumed')].tag = "spdx_id")
       => /\ IF ~Has(creation_info, "spdx_id")
             THEN /\ creation_info'
                         = Put(creation_info, "spdx_id", consumed'[Len(consumed')].v)
                  /\ current_element' = current_element
             ELSE /\ current_element'
                         = Put(current_element, "spdx_id", consumed'[Len(consumed')].v)
                  /\ creation_info' = creation_info
          /\ calls = 1 => (NoIdTagYet <=> ~Has(creation_info, "spdx_id"))]_vars

\* the first id tag of the input arrived while an accumulator was open: it
\* became the document id and the accumulator has no spdx_id
C24_Witness ==
    /\ pc = "parsing"
    /\ calls = 1
    /\ consumed # <<>>
    /\ Last(consumed).tag = "spdx_id"
    /\ Has(current_element, "class")
    /\ ~Has(current_element, "spdx_id")
    /\ Has(creation_info, "spdx_id")
    /\ creation_info["spdx_id"] = Last(consumed).v

\* the value of license_info_in_file in the open accumulator, <<>> when the
\* field is not set
StoredLicenseInfo ==
    IF Has(current_element, "license_info_in_file")
    THEN current_element["license_info_in_file"]
    ELSE <<>>

\* what the claim says the field holds after a license-info tag of value v
LastWriteWins(v) ==
    IF IsSentinelWord(v) THEN Sentinel(v)
    ELSE IF StoredLicenseInfo \in {Sentinel("NONE"), Sentinel("NOASSERTION")} THEN <<v>>
    ELSE Append(StoredLicenseInfo, v)

\* C25 as stated, for the license-info field of a File: a sentinel replaces
\* whatever the field holds, a concrete entry after a sentinel replaces the
\* sentinel by a list holding that entry, a concrete entry after concrete
\* entries is appended; no order logs a message or raises.
C25_SentinelLastWriteWins ==
    [][(/\ pc = "parsing"
        /\ StartTagStep
        /\ consumed'[Len(consumed')].tag = "file_lics_info"
        /\ Has(current_element, "class")
        /\ current_element["class"] = "File")
       => /\ pc' = "parsing"
          /\ logger' = logger
          /\ current_element'
                 = Put(current_element, "license_info_in_file",
                       LastWriteWins(consumed'[Len(consumed')].v))]_vars

\* a tag that calls initialize_new_current_element has been consumed
ElementStarted == \E i \in DOMAIN consumed : consumed[i].tag \in InitializingTags

\* the tags consumed after the tag that opened the accumulator now open
SinceStart ==
    LET start == CHOOSE i \in DOMAIN consumed :
                     /\ consumed[i].tag \in InitializingTags
                     /\ \A j \in (i + 1)..Len(consumed) :
                           consumed[j].tag \notin InitializingTags
    IN  SubSeq(consumed, start + 1, Len(consumed))

\* the values of the tags named tag of the open element, in input order
ValuesOf(tag) ==
    LET sel == SelectSeq(SinceStart, LAMBDA t : t.tag = tag)
    IN  [i \in DOMAIN sel |-> sel[i].v]

\* a singular field holds the value of the last tag seen for it
SingularHolds(field, tag) ==
    IF ValuesOf(tag) = <<>> THEN ~Has(current_element, field)
    ELSE Has(current_element, field) /\ current_element[field] = Last(ValuesOf(tag))

\* a repeatable field holds all values seen for it, in input order
RepeatableHolds(field, tag) ==
    IF ValuesOf(tag) = <<>> THEN ~Has(current_element, field)
    ELSE Has(current_element, field) /\ current_element[field] = ValuesOf(tag)

\* C26: while an element is open, each singular field that has in-scope
\* value tags (the comment of a File, the version of a Package) holds the
\* value of the last of them, and each repeatable field (the file types of
\* a File) holds the values of all of them in input order, none lost,
\* repeated values included.
C26_FieldArity ==
    (pc = "parsing" /\ Has(current_element, "class") /\ ElementStarted)
    => /\ current_element["class"] = "File"
          => /\ SingularHolds("comment", "file_comment")
             /\ RepeatableHolds("file_type", "file_type")
       /\ current_element["class"] = "Package"
          => SingularHolds("version", "package_version")

\* a File that was given the comments "first" and "second" and the types
\* SOURCE, TEXT, SOURCE holds the last comment and the three types in order
C26_Witness ==
    /\ pc = "parsing"
    /\ Has(current_element, "class")
    /\ current_element["class"] = "File"
    /\ Has(current_element, "comment")
    /\ current_element["comment"] = "second"
    /\ Has(current_element, "file_type")
    /\ current_element["file_type"] = <<"SOURCE", "TEXT", "SOURCE">>

\* a Relationship tag of three words whose second word names no
\* RelationshipType
HasInvalidType(t) ==
    t.tag = "relationship" /\ Len(t.words) = 3 /\ t.words[2] \notin RelationshipTypeNames

\* the open accumulator is a Relationship whose type lookup failed
InvalidTypeOpen ==
    /\ Has(current_element, "class")
    /\ current_element["class"] = "Relationship"
    /\ ~Has(current_element, "relationship_type")
    /\ current_element["logger"] # <<>>
    /\ current_element["logger"][1].k = "relationship_type"

\* C27: when p_relationship looks up a type token that is no
\* RelationshipType name, it appends one message to the local logger of the
\* new accumulator, leaves relationship_type unset, sets spdx_element_id and
\* related_spdx_element_id, logs nothing at document level and raises
\* nothing; at its finalization the accumulator is discarded: no
\* relationship is added, its message goes to the document-level logger and
\* nothing is raised.
C27_InvalidRelationshipType ==
    [][/\ (/\ pc = "parsing"
           /\ StartTagStep
           /\ HasInvalidType(consumed'[Len(consumed')])
           /\ pc' = "parsing")
          => LET t == consumed'[Len(consumed')]
             IN  /\ current_element'["class"] = "Relationship"
                 /\ current_element'["logger"]
                        = <<Msg("relationship_type", t.words[2], Len(consumed'))>>
                 /\ ~Has(current_element', "relationship_type")
                 /\ Has(current_element', "spdx_element_id")
                 /\ current_element'["spdx_element_id"] = t.words[1]
                 /\ Has(current_element', "related_spdx_element_id")
                 /\ current_element'["related_spdx_element_id"] = RelatedId(t.words[3])
                 /\ logger' = construct_current_element(Self).logger
       /\ (Finalizes /\ InvalidTypeOpen)
          => /\ elements_build' = elements_build
             /\ Len(logger') > Len(logger)
             /\ SubSeq(logger', 1, Len(logger) + 1)
                    = Append(logger, ErrorWhileParsing("Relationship",
                                                       current_element["logger"]))
             /\ pc' # "raised"
             /\ StartTagStep => pc' = "parsing"
      ]_vars

\* a Relationship with an invalid type was finalized by the start tag that
\* followed it, and the parse went on to its end
C27_Witness ==
    /\ pc = "done"
    /\ Len(consumed) > 1
    /\ HasInvalidType(consumed[Len(consumed) - 1])
    /\ Last(consumed).tag \in InitializingTags
    /\ result.kind = "SPDXParsingError"
    /\ \E i \in DOMAIN result.messages :
          /\ result.messages[i].k = "parsing"
          /\ result.messages[i].what = "Relationship"
          /\ result.messages[i].msgs[1].k = "relationship_type"

\* the step finalizes a File whose construction succeeds, after a package
\* was added to elements_build
FileFinalizesAfterPackage ==
    /\ Finalizes
    /\ Has(current_element, "class")
    /\ current_element["class"] = "File"
    /\ current_element["logger"] = <<>>
    /\ ~ConstructionFails("File", CurrentArgs)
    /\ Has(elements_build, "packages")

\* the relationship collection, empty when elements_build has none
CollectedRelationships ==
    IF Has(elements_build, "relationships") THEN elements_build["relationships"] ELSE <<>>

\* the edge from the package added last to the File being finalized
ImpliedEdge ==
    Relationship(Last(elements_build["packages"])["spdx_id"], "CONTAINS",
                 current_element["spdx_id"], None)

\* C28 as stated: when a File finalizes successfully after a Package, the
\* edge (package_id, CONTAINS, file_id) is appended to the relationship
\* collection unless a relationship equal to it in all four fields is
\* already there; an inverse edge or the same edge with a comment does not
\* suppress it; nothing is raised.
C28_DirectEqualityOnly ==
    [][FileFinalizesAfterPackage
       => /\ pc' # "raised"
          /\ result'.kind # "KeyError"
          /\ Has(elements_build', "relationships")
          /\ elements_build'["relationships"]
                 = IF ImpliedEdge \in Range(CollectedRelationships)
                   THEN CollectedRelationships
                   ELSE Append(CollectedRelationships, ImpliedEdge)]_vars

\* the package collection, empty when elements_build has none
CollectedPackages ==
    IF Has(elements_build, "packages") THEN elements_build["packages"] ELSE <<>>

\* the step finalizes a Package whose construction succeeds
PackageFinalizesSuccessfully ==
    /\ Finalizes
    /\ Has(current_element, "class")
    /\ current_element["class"] = "Package"
    /\ current_element["logger"] = <<>>
    /\ ~ConstructionFails("Package", CurrentArgs)

IdsOf(key, eb) ==
    IF Has(eb, key) THEN {eb[key][i]["spdx_id"] : i \in DOMAIN eb[key]} ELSE {}

\* the step finalizes a Relationship: what it adds to the relationship
\* collection is explicit, not synthesized
RelationshipFinalizes ==
    /\ Finalizes
    /\ Has(current_element, "class")
    /\ current_element["class"] = "Relationship"

\* the step finalizes a File that is discarded, or a File while no package
\* has been added
FileWithoutEdgeFinalizes ==
    /\ Finalizes
    /\ Has(current_element, "class")
    /\ current_element["class"] = "File"
    /\ \/ current_element["logger"] # <<>>
       \/ ConstructionFails("File", CurrentArgs)
       \/ ~Has(elements_build, "packages")

\* C30: every relationship that a step other than the finalization of a
\* Relationship adds to elements_build is one edge (p, CONTAINS, f) without
\* comment, with p the spdx_id of a package of elements_build["packages"]
\* and f the spdx_id of a file of elements_build["files"]; the finalization
\* of a File that is discarded, or that finalizes while no package has been
\* added, adds none; and no step removes a package or a file, so the edge
\* stays well-founded in every later state.
C30_SynthesizedEdgesWellFounded ==
    [][LET new == IF Has(elements_build', "relationships")
                  THEN elements_build'["relationships"] ELSE <<>>
       IN  /\ ~RelationshipFinalizes
              => \/ new = CollectedRelationships
                 \/ \E p \in IdsOf("packages", elements_build'),
                       f \in IdsOf("files", elements_build') :
                       new = Append(CollectedRelationships,
                                    Relationship(p, "CONTAINS", f, None))
           /\ FileWithoutEdgeFinalizes => new = CollectedRelationships
           /\ IdsOf("packages", elements_build) \subseteq IdsOf("packages", elements_build')
           /\ IdsOf("files", elements_build) \subseteq IdsOf("files", elements_build')
      ]_vars

\* the file f received its edge from package P, and the file after it,
\* which has no id, was discarded at the end of the input without an edge
C30_Witness ==
    /\ pc = "done"
    /\ calls = 1
    /\ ErrorWhileConstructing("File") \in Range(logger)
    /\ Has(elements_build, "relationships")
    /\ elements_build["relationships"]
           = <<Relationship(DocId, "DESCRIBES", "SPDXRef-P", None),
               Relationship("SPDXRef-P", "CONTAINS", "SPDXRef-f", None)>>
    /\ IdsOf("files", elements_build) = {"SPDXRef-f"}
    /\ IdsOf("packages", elements_build) = {"SPDXRef-P"}

\* the candidate, or its inverse when its type has one, is among the
\* existing relationships, their comments ignored
CandidateOrInverseExists ==
    LET without == Range(ignore_any_comments_in_relationship_list(xcreated_relationships))
    IN  \/ xrelationship \in without
        \/ /\ xrelationship.relationship_type \in InverseTypes
           /\ convert_relationship(xrelationship) \in without

\* C31 as stated: check_if_relationship_exists answers for a candidate of
\* any relationship type, True exactly when the candidate or its semantic
\* inverse is among the existing relationships; a type that has no inverse
\* has no inverse match, and the call does not fail.
C31_InverseOnlyWhereDefined ==
    xpc = "done" => exists = (IF CandidateOrInverseExists THEN "True" ELSE "False")

RangeTags == {"snip_byte_range", "snip_line_range"}
RangeField(tag) == IF tag = "snip_byte_range" THEN "byte_range" ELSE "line_range"

\* the value is <digits>:<digits>, blanks around it left aside
IsDigitsColonDigits(cs) ==
    LET d == Strip(cs)
    IN  /\ Cardinality(Colons(d)) = 1
        /\ \A i \in DOMAIN d \ Colons(d) : d[i] \in Digits
        /\ d # <<>> /\ d[1] # ":" /\ d[Len(d)] # ":"

\* the number a sequence of digits denotes
RECURSIVE Number(_)
Number(ds) ==
    IF ds = <<>> THEN 0
    ELSE 10 * Number(SubSeq(ds, 1, Len(ds) - 1)) + DigitValue(ds[Len(ds)])

\* the pair (start, end) of a value <digits>:<digits>
RangePair(cs) ==
    LET d == Strip(cs)
        k == CHOOSE i \in DOMAIN d : d[i] = ":"
    IN  <<Number(SubSeq(d, 1, k - 1)), Number(SubSeq(d, k + 1, Len(d)))>>

\* C33: while a Snippet is open, a SnippetByteRange or SnippetLineRange
\* value that is not <digits>:<digits> appends exactly one message to the
\* local logger of the accumulator and leaves every field, byte_range and
\* line_range included, as it was; a value that is <digits>:<digits> sets
\* the field to the pair (start, end) and appends no message to any
\* logger; neither raises.
C33_SnippetRange ==
    [][(/\ pc = "parsing"
        /\ StartTagStep
        /\ consumed'[Len(consumed')].tag \in RangeTags
        /\ Has(current_element, "class")
        /\ current_element["class"] = "Snippet")
       => LET t == consumed'[Len(consumed')]
          IN  /\ pc' = "parsing"
              /\ logger' = logger
              /\ IF IsDigitsColonDigits(t.words)
                 THEN current_element'
                          = Put(current_element, RangeField(t.tag), RangePair(t.words))
                 ELSE /\ Pop(current_element', "logger") = Pop(current_element, "logger")
                      /\ Len(current_element'["logger"]) = Len(current_element["logger"]) + 1
                      /\ SubSeq(current_element'["logger"], 1, Len(current_element["logger"]))
                             = current_element["logger"]
                      /\ Last(current_element'["logger"]).k = "range"]_vars

\* a Snippet with the byte range (10, 25) and the line range (9, 3) that
\* was given values that match no range before and after them
C33_Witness ==
    /\ pc = "parsing"
    /\ Has(current_element, "class")
    /\ current_element["class"] = "Snippet"
    /\ Has(current_element, "byte_range")
    /\ current_element["byte_range"] = <<10, 25>>
    /\ Has(current_element, "line_range")
    /\ current_element["line_range"] = <<9, 3>>
    /\ Len(current_element["logger"]) = Len(RejectedRanges)

\* the categories an ExternalRef value can name, as they are written in the
\* input, and the category each denotes
KnownCategoryWords ==
    {"SECURITY", "PACKAGE-MANAGER", "PACKAGE_MANAGER", "PERSISTENT-ID", "PERSISTENT_ID",
     "OTHER"}
CategoryDenoted(word) ==
    CASE word \in {"PACKAGE-MANAGER", "PACKAGE_MANAGER"} -> "PACKAGE_MANAGER"
      [] word \in {"PERSISTENT-ID", "PERSISTENT_ID"} -> "PERSISTENT_ID"
      [] OTHER -> word

\* the external references of the open accumulator
CollectedExternalRefs ==
    IF Has(current_element, "external_references")
    THEN current_element["external_references"]
    ELSE <<>>

\* C34: while a Package is open, an ExternalRef tag of three words whose
\* category is unknown appends exactly one message to the local logger of
\* the accumulator and leaves every field, external_references included, as
\* it was; one whose category is known is appended at the end of
\* external_references, so the accepted references are kept in input
\* order; neither logs at document level nor raises.
C34_ExternalRefUnknownCategory ==
    [][(/\ pc = "parsing"
        /\ StartTagStep
        /\ consumed'[Len(consumed')].tag = "pkg_ext_ref"
        /\ Len(consumed'[Len(consumed')].words) = 3
        /\ Has(current_element, "class")
        /\ current_element["class"] = "Package")
       => LET t == consumed'[Len(consumed')]
          IN  /\ pc' = "parsing"
              /\ logger' = logger
              /\ IF t.words[1] \in KnownCategoryWords
                 THEN current_element'
                          = Put(current_element, "external_references",
                                Append(CollectedExternalRefs,
                                       ExternalPackageRef(CategoryDenoted(t.words[1]),
                                                          t.words[2], t.words[3], t.comment)))
                 ELSE /\ Pop(current_element', "logger") = Pop(current_element, "logger")
                      /\ current_element'["logger"]
                             = Append(current_element["logger"],
                                      Msg("category", t.words[1], 0))]_vars

\* a Package that was given references of unknown category before, between
\* and after three accepted ones holds the three in input order
C34_Witness ==
    /\ pc = "parsing"
    /\ Has(current_element, "class")
    /\ current_element["class"] = "Package"
    /\ Len(current_element["logger"]) = 4
    /\ CollectedExternalRefs
           = <<ExternalPackageRef("SECURITY", "cpe23Type", "cpe:1", None),
               ExternalPackageRef("PACKAGE_MANAGER", "purl", "pkg:a", "c"),
               ExternalPackageRef("PERSISTENT_ID", "swh", "swh:1", None)>>

\* the error tags of value tags, the kind of element each belongs to and
\* the tag name its message holds
ValueErrorTags == {"file_comment_error", "package_version_error"}
ValueErrorKind(tag) == IF tag = "file_comment_error" THEN "File" ELSE "Package"
ValueErrorName(tag) == IF tag = "file_comment_error" THEN "FileComment" ELSE "PackageVersion"

\* the open accumulator holds the message of a value tag of another kind
HoldsForeignValueError ==
    /\ Has(current_element, "class")
    /\ \E i \in DOMAIN current_element["logger"] :
          \E tag \in ValueErrorTags :
             /\ current_element["logger"][i].k = "grammar"
             /\ current_element["logger"][i].what = ValueErrorName(tag)
             /\ current_element["class"] # ValueErrorKind(tag)

\* C35: the error handler of a value tag appends exactly its one message to
\* the local logger of the open accumulator, whatever the kind of the open
\* element and even when no element is open, and changes nothing else; an
\* accumulator of another kind that holds such a message adds nothing to
\* elements_build at its finalization, and the message reaches the
\* document-level logger wrapped under the kind of the discarded element.
C35_ValueErrorToOpenAccumulator ==
    [][/\ (/\ pc = "parsing"
           /\ StartTagStep
           /\ consumed'[Len(consumed')].tag \in ValueErrorTags)
          => /\ current_element'
                    = Put(current_element, "logger",
                          Append(current_element["logger"],
                                 GrammarError(ValueErrorName(consumed'[Len(consumed')].tag),
                                              Len(consumed'))))
             /\ logger' = logger
             /\ creation_info' = creation_info
             /\ elements_build' = elements_build
             /\ pc' = "parsing"
       /\ (Finalizes /\ HoldsForeignValueError)
          => /\ elements_build' = elements_build
             /\ Len(logger') > Len(logger)
             /\ logger'[Len(logger) + 1]
                    = ErrorWhileParsing(current_element["class"],
                                        current_element["logger"])]_vars

\* a Package with name and id that received the error of a FileComment tag
\* was discarded at its finalization
C35_Witness ==
    /\ logger # <<>>
    /\ \E i \in DOMAIN logger :
          /\ logger[i] = ErrorWhileParsing("Package", logger[i].msgs)
          /\ Len(logger[i].msgs) = 1
          /\ logger[i].msgs[1].k = "grammar"
          /\ logger[i].msgs[1].what = "FileComment"
    /\ ~Has(elements_build, "packages")
    /\ \E i \in DOMAIN consumed : consumed[i].tag = "package_name"
    /\ \E i \in DOMAIN consumed : consumed[i].tag = "spdx_id" /\ consumed[i].v = "SPDXRef-P"

\* the inputs in which the explicit tag (P, CONTAINS, f) appears after the
\* tags of file f, and those in which it is finalized before f finalizes
ExplicitAfterFile ==
    {Header \o ContainedFileInput \o <<ContainsTag>>,
     Header \o <<ExplicitRelationship>> \o ContainedFileInput \o <<ContainsTag>>}
ExplicitBeforeFile ==
    {Header \o <<ContainsTag>> \o ContainedFileInput,
     Header \o PackageTags("P", "SPDXRef-P") \o <<ContainsTag>>
         \o FileTags("f.c", "SPDXRef-f")}
\* the first call of parse has ended
FirstCallEnded == calls = 1 /\ pc \in {"done", "raised"}
\* how often the relationship collection holds (P, CONTAINS, f)
ContainmentCopies ==
    Occurrences(CollectedRelationships,
                Relationship("SPDXRef-P", "CONTAINS", "SPDXRef-f", None))

\* C36: when the explicit Relationship tag (P, CONTAINS, f) appears after
\* file f, the parse ends with the edge twice in the relationship
\* collection; when it is finalized before f finalizes, the parse ends with
\* the edge exactly once.
C36_OrderSensitivity ==
    FirstCallEnded =>
        /\ consumed \o rest \in ExplicitAfterFile
              => result.kind = "Document" /\ ContainmentCopies = 2
        /\ consumed \o rest \in ExplicitBeforeFile
              => result.kind = "Document" /\ ContainmentCopies = 1

\* the same, where a relationship was finalized before file f finalizes
C36_AfterEarlierRelationship ==
    (/\ FirstCallEnded
     /\ \E i \in DOMAIN consumed :
           /\ consumed[i].tag = "relationship"
           /\ \E j \in DOMAIN consumed : j > i /\ consumed[j] = T("file_name", "f.c"))
    => /\ consumed \o rest \in ExplicitAfterFile
              => result.kind = "Document" /\ ContainmentCopies = 2
       /\ consumed \o rest \in ExplicitBeforeFile
              => result.kind = "Document" /\ ContainmentCopies = 1

\* the relationship an entry of the "relationships" key states
StatedRelationship(d) ==
    Relationship(d["spdxElementId"], d["relationshipType"], d["relatedSpdxElement"],
                 d["comment"])
\* every relationship of the list has the type, and no comment
AllAdded(L, type) ==
    \A i \in DOMAIN L : L[i].relationship_type = type /\ L[i].comment = None
\* L starts with the list P
StartsWith(L, P) == Len(P) <= Len(L) /\ SubSeq(L, 1, Len(P)) = P

\* the list a successful call returns: the explicit relationships as
\* stated, one per entry and in input order, then the DESCRIBES edges, then
\* the CONTAINS edges, then the DEPENDENCY_OF edges
ReturnedInPhaseOrder ==
    LET stated == [i \in DOMAIN input_doc_dict["relationships"] |->
                      StatedRelationship(input_doc_dict["relationships"][i])]
        added == SubSeq(relationships_list, Len(stated) + 1, Len(relationships_list))
    IN  /\ StartsWith(relationships_list, stated)
        /\ \E a \in 0..Len(added) : \E b \in a..Len(added) :
              /\ AllAdded(SubSeq(added, 1, a), "DESCRIBES")
              /\ AllAdded(SubSeq(added, a + 1, b), "CONTAINS")
              /\ AllAdded(SubSeq(added, b + 1, Len(added)), "DEPENDENCY_OF")
              /\ \A i \in 1..a : added[i].spdx_element_id = input_doc_dict["SPDXID"]
              /\ \A i \in (a + 1)..b :
                    \E j \in DOMAIN input_doc_dict["packages"] :
                       added[i].spdx_element_id = input_doc_dict["packages"][j]["SPDXID"]
              /\ \A i \in (b + 1)..Len(added) :
                    \E j \in DOMAIN input_doc_dict["files"] :
                       added[i].related_spdx_element_id = input_doc_dict["files"][j]["SPDXID"]

\* C37: a call of parse_all_relationships that returns a list returns the
\* explicit relationships first, one per entry of the input, in input
\* order and with their comments, followed by the added DESCRIBES edges,
\* the added CONTAINS edges and the DEPENDENCY_OF edges; and no step of the
\* call, the duplicate checks of the describes and contains phases
\* included, changes or removes a relationship the list already holds.
C37_ExplicitPassThrough ==
    [][/\ rpc' = "done" => ReturnedInPhaseOrder'
       /\ StartsWith(relationships_list', relationships_list)]_vars

\* a call returned two equal explicit relationships with a comment, or two
\* mutually inverse ones, and an edge it added after them
C37_Witness ==
    /\ rpc = "done"
    /\ Len(input_doc_dict["relationships"]) = 2
    /\ Len(relationships_list) > 2
    /\ relationships_list[1].comment = "c"
    /\ \/ relationships_list[1] = relationships_list[2]
       \/ /\ relationships_list[1].relationship_type = "DESCRIBES"
          /\ relationships_list[2].relationship_type = "DESCRIBED_BY"

\* a phase of the call in progress fails: an explicit entry does not parse,
\* or a candidate of the describes, contains or dependency phase cannot be
\* constructed
SomePhaseFails ==
    \/ FailedEntries # {}
    \/ FailingDescribes > 0
    \/ FailingContains > 0
    \/ FailingDependencies > 0

\* C38: a call of parse_all_relationships returns a list if and only if no
\* phase failed; when a phase failed the call ends by raising one
\* SPDXParsingError, and it does so from its last statements, after the
\* explicit, describes, contains and dependency phases have all run.
C38_NoPartialResult ==
    [][(rpc \notin {"done", "raised"} /\ rpc' \in {"done", "raised"})
       => /\ rresult' = Returned <=> ~SomePhaseFails
          /\ SomePhaseFails => /\ rresult'.kind = "SPDXParsingError"
                               /\ rpc = "return"]_vars

\* the same for the calls whose explicit relationships all parse
C38_WithValidExplicitEntries ==
    [][(/\ rpc \notin {"done", "raised"}
        /\ rpc' \in {"done", "raised"}
        /\ FailedEntries = {})
       => /\ rresult' = Returned <=> ~SomePhaseFails
          /\ SomePhaseFails => /\ rresult'.kind = "SPDXParsingError"
                               /\ rpc = "return"]_vars

\* C39: the second call of parse_all_relationships on a RelationshipParser
\* depends on its own input only: when no phase of the second input fails
\* it returns its list and raises nothing, and when it raises an
\* SPDXParsingError the messages are those of the phases of the second
\* input that failed, with no message of the first call among them.
C39_IndependentCalls ==
    (rcalls = 2 /\ rpc \in {"done", "raised"})
    => /\ ~SomePhaseFails => rresult = Returned
       /\ rresult.kind = "SPDXParsingError"
             => [i \in DOMAIN rresult.messages |->
                    [what |-> rresult.messages[i].what,
                     n |-> Len(rresult.messages[i].msgs)]]
                    = ExpectedPhaseFailures

\* the same for a second call that follows a call which left no message in
\* self.logger, so that self.logger holds the messages of the second only
C39_AfterCallWithoutMessages ==
    (/\ rcalls = 2
     /\ rpc \in {"done", "raised"}
     /\ Len(rlogger) = Len(ExpectedPhaseFailures))
    => /\ ~SomePhaseFails => rresult = Returned
       /\ rresult.kind = "SPDXParsingError"
             => [i \in DOMAIN rresult.messages |->
                    [what |-> rresult.messages[i].what,
                     n |-> Len(rresult.messages[i].msgs)]]
                    = ExpectedPhaseFailures

\* the entry initialize_new_current_element appends for the open accumulator
HistoryEntry == [class |-> current_element["class"], spdx_id |-> current_element["spdx_id"]]
\* the open accumulator has both a class and an spdx_id
PredecessorIdentified == Has(current_element, "class") /\ Has(current_element, "spdx_id")
\* the object with an empty element history
WithoutHistory == [Self EXCEPT !.element_stack = <<>>]
\* two objects that differ in the element history at most
SameButHistory(s1, s2) ==
    [s1 EXCEPT !.element_stack = <<>>] = [s2 EXCEPT !.element_stack = <<>>]
\* the methods that receive the object give the same loggers, accumulator,
\* elements_build and exception with the history and without it
HistoryHasNoInfluence ==
    /\ SameButHistory(construct_current_element(Self),
                      construct_current_element(WithoutHistory))
    /\ \A cls \in {"File", "Package", "Snippet", "Annotation", "Relationship",
                   "ExtractedLicensingInfo"} :
          /\ SameButHistory(initialize_new_current_element(Self, cls),
                            initialize_new_current_element(WithoutHistory, cls))
          /\ SameButHistory(check_that_current_element_matches_class_for_value(Self, cls),
                            check_that_current_element_matches_class_for_value(
                                WithoutHistory, cls))

\* C40: a start tag, well-formed or malformed, appends one entry (class,
\* spdx_id) of the open accumulator to element_stack when that accumulator
\* has both, also when its finalization then fails or raises, and appends
\* nothing otherwise; no other step changes element_stack, no step removes
\* or changes an entry; and the methods give the same loggers, accumulator
\* and elements_build whatever the history holds.
C40_ElementHistoryWriteOnly ==
    [][/\ (pc = "parsing" /\ StartTagStep)
          => element_stack'
                = IF /\ consumed'[Len(consumed')].tag \in InitializingTags \cup MalformedStartTags
                     /\ PredecessorIdentified
                  THEN Append(element_stack, HistoryEntry)
                  ELSE element_stack
       /\ ~(pc = "parsing" /\ StartTagStep) => element_stack' = element_stack
       /\ pc = "parsing" => HistoryHasNoInfluence]_vars

\* the same for every tag but the malformed LicenseID
C40_ExceptMalformedLicenseId ==
    [][/\ (/\ pc = "parsing"
           /\ StartTagStep
           /\ consumed'[Len(consumed')].tag # "extr_lic_id_error")
          => element_stack'
                = IF /\ consumed'[Len(consumed')].tag \in InitializingTags \cup MalformedStartTags
                     /\ PredecessorIdentified
                  THEN Append(element_stack, HistoryEntry)
                  ELSE element_stack
       /\ ~(pc = "parsing" /\ StartTagStep) => element_stack' = element_stack
       /\ pc = "parsing" => HistoryHasNoInfluence]_vars

====
